---- MODULE Spec2Model ----
(***************************************************************************)
(* Contract-validation engine of synapse-spec-first: the two schema        *)
(* loaders (AsyncAPI, OpenAPI), the dialect translator, the validation     *)
(* facade and the contract test suites of internal/conformance.            *)
(*                                                                         *)
(* Go `any` values (as decoded by yaml.v3) are tagged records [k, v].      *)
(* A Go string that the code splits on "/" or builds with Sprintf is the   *)
(* sequence of its "/"-separated segments, so that                         *)
(*   "#/components/schemas/B"  is  <<"#","components","schemas","B">>      *)
(*   "synapse://asyncapi/B"    is  <<"synapse:","","asyncapi","B">>.       *)
(* Map keys (schema names, keywords, property names) are plain strings.    *)
(***************************************************************************)
EXTENDS Integers, Sequences, FiniteSets, TLC

VARIABLES
    dialect,      \* "asyncapi" (AsyncAPIValidator) or "openapi" (OpenAPIValidator)
    specDoc,      \* the file at specPath: [read, parse, root]
    schemaDir,    \* OpenAPI: the entries of components/schemas as os.ReadDir returns them
    pc,           \* position of the constructor
    fi,           \* OpenAPI pass 1: index of the directory entry being visited
    todo,         \* pass 1: keys of the map under iteration that the range loop has not visited
    ci,           \* pass 2: index into schemaNames
    resources,    \* compiler: ResourceID -> registered (translated) document
    compiled,     \* compiler: ResourceIDs whose schema has been compiled
    schemaNames,  \* the loader's local slice schemaNames
    schemas,      \* v.schemas: name -> compiled schema (its ResourceID)
    channels,     \* v.channels: name -> ChannelInfo
    ret,          \* what the constructor returned: [v, err]
    results,      \* s.results of the test suite
    lastCall,     \* the most recent validation call and the error it returned
    calls,        \* number of suite / facade calls issued so far
    gor,          \* concurrent callers of ValidateEvent: goroutine -> its frame
    node,         \* the schema mapping handed to toJSONSchema
    translated,   \* what that call of toJSONSchema returned
    peer,         \* a second validator, constructed next to the first one
    router,       \* pipeline: state of the message router
    stages,       \* pipeline: r.stages, stage id -> StageMetrics
    topicLog,     \* pipeline: topic -> the messages published on it, in order
    waiting,      \* pipeline: handler -> messages published to its topic, not yet sent to it
    inflight,     \* pipeline: handler -> the message sent to it and not yet acknowledged
    attempt,      \* pipeline: handler -> retries the Retry middleware has made for that message
    ingested      \* pipeline: number of IngestOrder calls so far

vars == <<dialect, specDoc, schemaDir, pc, fi, todo, ci, resources, compiled,
          schemaNames, schemas, channels, ret, results, lastCall, calls, gor,
          node, translated, peer, router, stages, topicLog, waiting, inflight,
          attempt, ingested>>

loaderVars == <<pc, fi, todo, ci, resources, compiled, schemaNames, schemas, channels, ret>>
inputVars == <<dialect, specDoc, schemaDir>>
suiteVars == <<results, lastCall, calls>>
translatorVars == <<node, translated>>
peerVars == <<peer>>
pipelineVars == <<router, stages, topicLog, waiting, inflight, attempt, ingested>>

(***************************************************************************)
(* Values                                                                  *)
(***************************************************************************)
Str(segs) == [k |-> "str", v |-> segs]
S(x) == Str(<<x>>)
Map(f) == [k |-> "map", v |-> f]
List(s) == [k |-> "list", v |-> s]
Num(n) == [k |-> "num", v |-> n]
Nil == [k |-> "nil", v |-> "nil"]
Bool(b) == [k |-> "bool", v |-> b]
\* a YAML mapping with a non-string key decodes to map[interface{}]interface{},
\* which encoding/json cannot marshal
IMap == [k |-> "imap", v |-> "imap"]
EmptyMap == [x \in {} |-> Nil]

Last(s) == s[Len(s)]

DialectMarker == Str(<<"https:", "", "json-schema.org", "draft", "2020-12", "schema">>)

AsyncPrefix == <<"synapse:", "", "asyncapi">>
OpenPrefix == <<"synapse:", "", "schemas">>
Prefix(d) == IF d = "asyncapi" THEN AsyncPrefix ELSE OpenPrefix

\* fmt.Sprintf("synapse://asyncapi/%s", name)
SchemaID(prefix, name) == prefix \o <<name>>

(***************************************************************************)
(* Schema Dialect Translator                                               *)
(***************************************************************************)
RECURSIVE toJSONSchema(_, _)
RECURSIVE Panics(_)

\* val.(string) on a $ref that is not a string panics; so does every nested
\* call that the translator makes
Panics(schema) ==
    \/ "$ref" \in DOMAIN schema /\ schema["$ref"].k # "str"
    \/ /\ "properties" \in DOMAIN schema
       /\ schema["properties"].k = "map"
       /\ \E n \in DOMAIN schema["properties"].v :
             /\ schema["properties"].v[n].k = "map"
             /\ Panics(schema["properties"].v[n].v)
    \/ /\ "items" \in DOMAIN schema
       /\ schema["items"].k = "map"
       /\ Panics(schema["items"].v)
    \/ /\ "allOf" \in DOMAIN schema
       /\ schema["allOf"].k = "list"
       /\ \E i \in DOMAIN schema["allOf"].v :
             /\ schema["allOf"].v[i].k = "map"
             /\ Panics(schema["allOf"].v[i].v)

convertProperties(prefix, props) ==
    [name \in {n \in DOMAIN props : props[n].k = "map"} |->
        Map(toJSONSchema(prefix, props[name].v))]

\* the required list is not carried over
StoredKeysWithoutRequired(schema) ==
    {k \in DOMAIN schema :
        CASE k = "properties" -> schema[k].k = "map"
          [] k = "items" -> schema[k].k = "map"
          [] k = "allOf" -> schema[k].k = "list"
          [] k = "required" -> FALSE
          [] OTHER -> TRUE}

\* the keys of the source for which the switch stores something in result
StoredKeys(schema) ==
    {k \in DOMAIN schema :
        CASE k = "properties" -> schema[k].k = "map"
          [] k = "items" -> schema[k].k = "map"
          [] k = "allOf" -> schema[k].k = "list"
          [] OTHER -> TRUE}

\* only the first element of allOf is converted and kept
toJSONSchemaFirstOfAllOf(prefix, schema) ==
    [k \in StoredKeys(schema) \cup {"$schema"} |->
        IF k \notin DOMAIN schema THEN DialectMarker
        ELSE CASE k = "$ref" -> Str(SchemaID(prefix, Last(schema[k].v)))
               [] k = "properties" -> Map(convertProperties(prefix, schema[k].v))
               [] k = "items" -> Map(toJSONSchema(prefix, schema[k].v))
               [] k = "allOf" ->
                    List([i \in DOMAIN schema[k].v \cap {1} |->
                            IF schema[k].v[i].k = "map"
                            THEN Map(toJSONSchema(prefix, schema[k].v[i].v))
                            ELSE Nil])
               [] OTHER -> schema[k]]

\* the reference is copied as it stands
toJSONSchemaKeepsRef(prefix, schema) ==
    [k \in StoredKeys(schema) \cup {"$schema"} |->
        IF k \notin DOMAIN schema THEN DialectMarker
        ELSE CASE k = "$ref" -> schema[k]
               [] k = "properties" -> Map(convertProperties(prefix, schema[k].v))
               [] k = "items" -> Map(toJSONSchema(prefix, schema[k].v))
               [] k = "allOf" ->
                    List([i \in DOMAIN schema[k].v |->
                            IF schema[k].v[i].k = "map"
                            THEN Map(toJSONSchema(prefix, schema[k].v[i].v))
                            ELSE Nil])
               [] OTHER -> schema[k]]

toJSONSchema(prefix, schema) ==
    [k \in StoredKeys(schema) \cup {"$schema"} |->
        IF k \notin DOMAIN schema THEN DialectMarker
        ELSE CASE k = "$ref" -> Str(SchemaID(prefix, Last(schema[k].v)))
               [] k = "properties" -> Map(convertProperties(prefix, schema[k].v))
               [] k = "items" -> Map(toJSONSchema(prefix, schema[k].v))
               [] k = "allOf" ->
                    List([i \in DOMAIN schema[k].v |->
                            IF schema[k].v[i].k = "map"
                            THEN Map(toJSONSchema(prefix, schema[k].v[i].v))
                            ELSE Nil])
               [] OTHER -> schema[k]]

\* json.Marshal(jsonSchema) returns an error
RECURSIVE Marshalable(_)
Marshalable(val) ==
    CASE val.k = "imap" -> FALSE
      [] val.k = "map" -> \A n \in DOMAIN val.v : Marshalable(val.v[n])
      [] val.k = "list" -> \A i \in DOMAIN val.v : Marshalable(val.v[i])
      [] OTHER -> TRUE

(***************************************************************************)
(* Schema Registry & Compiler: github.com/santhosh-tekuri/jsonschema/v5 as *)
(* the loaders use it (NewCompiler, AddResource, Compile, Schema.Validate) *)
(***************************************************************************)
NoResources == [r \in {} |-> Nil]

\* Compiler.AddResource stores the document under its URL; a second call
\* with the same URL replaces the first document and returns no error
AddResource(res, id, doc) ==
    [r \in DOMAIN res \cup {id} |-> IF r = id THEN doc ELSE res[r]]

\* the $ref occurrences the compiler meets below the schema value val;
\* same = the occurrence applies to the same instance location as val
RECURSIVE RefsOf(_, _)
RefsOf(val, same) ==
    IF val.k # "map" THEN {}
    ELSE LET m == val.v
             own == IF "$ref" \in DOMAIN m /\ m["$ref"].k = "str"
                    THEN {[ref |-> m["$ref"].v, same |-> same]} ELSE {}
             props == IF "properties" \in DOMAIN m /\ m["properties"].k = "map"
                      THEN UNION {RefsOf(m["properties"].v[p], FALSE) :
                                     p \in DOMAIN m["properties"].v}
                      ELSE {}
             items == IF "items" \in DOMAIN m THEN RefsOf(m["items"], FALSE) ELSE {}
             lists(kw) == IF kw \in DOMAIN m /\ m[kw].k = "list"
                          THEN UNION {RefsOf(m[kw].v[i], same) : i \in DOMAIN m[kw].v}
                          ELSE {}
         IN own \cup props \cup items \cup lists("allOf") \cup lists("oneOf")

\* the draft 2020-12 metaschema, for the keywords of the model
RECURSIVE MetaValid(_)
MetaValid(val) ==
    /\ val.k = "map"
    /\ LET m == val.v
           listOK(kw) == kw \in DOMAIN m =>
                            /\ m[kw].k = "list"
                            /\ Len(m[kw].v) >= 1
                            /\ \A i \in DOMAIN m[kw].v : MetaValid(m[kw].v[i])
       IN /\ "$ref" \in DOMAIN m => m["$ref"].k = "str"
          /\ "type" \in DOMAIN m => m["type"].k = "str"
          /\ "required" \in DOMAIN m => m["required"].k = "list"
          /\ "properties" \in DOMAIN m =>
                /\ m["properties"].k = "map"
                /\ \A p \in DOMAIN m["properties"].v : MetaValid(m["properties"].v[p])
          /\ "items" \in DOMAIN m => MetaValid(m["items"])
          /\ listOK("allOf")
          /\ listOK("oneOf")

IsPointer(ref) == Len(ref) >= 1 /\ ref[1] = "#"

\* JSON pointer lookup inside one resource document
RECURSIVE PtrTarget(_, _)
PtrTarget(val, segs) ==
    IF segs = <<>> THEN val
    ELSE IF val.k = "map" /\ Head(segs) \in DOMAIN val.v
         THEN PtrTarget(val.v[Head(segs)], Tail(segs))
         ELSE Nil

\* a reference resolves to a registered resource or to a schema inside the
\* resource that holds it; no loader exists for the synapse: scheme
Resolvable(res, id, ref) ==
    IF IsPointer(ref) THEN PtrTarget(res[id], Tail(ref)).k = "map"
    ELSE ref \in DOMAIN res

RefEdges(res, id, sameOnly) ==
    {e.ref : e \in {x \in RefsOf(res[id], TRUE) :
                       /\ ~IsPointer(x.ref)
                       /\ x.ref \in DOMAIN res
                       /\ (sameOnly => x.same)}}

RECURSIVE Closure(_, _, _, _)
Closure(res, frontier, seen, sameOnly) ==
    IF frontier \subseteq seen THEN seen
    ELSE LET new == frontier \ seen
         IN Closure(res, UNION {RefEdges(res, r, sameOnly) : r \in new},
                    seen \cup new, sameOnly)

\* the resources Compile(id) compiles: id and what it references, except
\* those the compiler holds compiled already
CompileSet(res, done, id) == Closure(res, {id}, done, FALSE) \ done

\* a chain of references that never leaves the instance location and
\* returns to where it started is reported as InfiniteLoopError
OnRefLoop(res, id) ==
    id \in Closure(res, RefEdges(res, id, TRUE), {}, TRUE)

\* Compiler.Compile(id) returns a schema and no error
CompileOK(res, done, id) ==
    /\ id \in DOMAIN res
    /\ \A r \in CompileSet(res, done, id) :
          /\ MetaValid(res[r])
          /\ \A e \in RefsOf(res[r], TRUE) : Resolvable(res, r, e.ref)
          /\ ~OnRefLoop(res, r)

(***************************************************************************)
(* JSON payloads: encoding/json.Unmarshal on the byte strings of the model *)
(***************************************************************************)
DObj(fields) == [k |-> "obj", v |-> fields]
DNum == [k |-> "num", v |-> {}]
DNull == [k |-> "nil", v |-> {}]

JSONUnmarshal(bytes) ==
    CASE bytes = "{}" -> [ok |-> TRUE, data |-> DObj({})]
      [] bytes = "{\"x\":1}" -> [ok |-> TRUE, data |-> DObj({"x"})]
      [] bytes = "{\"x\":1,\"y\":1}" -> [ok |-> TRUE, data |-> DObj({"x", "y"})]
      [] bytes = "null" -> [ok |-> TRUE, data |-> DNull]
      [] bytes = "1" -> [ok |-> TRUE, data |-> DNum]
      [] OTHER -> [ok |-> FALSE, data |-> DNull]

TypeName(data) ==
    CASE data.k = "obj" -> "object"
      [] data.k = "num" -> "number"
      [] OTHER -> "null"

\* Schema.Validate: the constraints of the compiled schema that data violates
RECURSIVE Violations(_, _, _, _)
Violations(res, id, val, data) ==
    LET m == val.v
        type == IF "type" \in DOMAIN m /\ m["type"].v # <<TypeName(data)>>
                THEN {<<"type", m["type"].v[1]>>} ELSE {}
        required == IF "required" \in DOMAIN m /\ data.k = "obj"
                    THEN {<<"required", m["required"].v[i].v[1]>> :
                             i \in {j \in DOMAIN m["required"].v :
                                       m["required"].v[j].v[1] \notin data.v}}
                    ELSE {}
        props == IF "properties" \in DOMAIN m /\ data.k = "obj"
                 THEN {<<"properties", p>> :
                          p \in {q \in DOMAIN m["properties"].v \cap data.v :
                                    Violations(res, id, m["properties"].v[q], DNum) # {}}}
                 ELSE {}
        allOf == IF "allOf" \in DOMAIN m
                 THEN UNION {Violations(res, id, m["allOf"].v[i], data) :
                                i \in DOMAIN m["allOf"].v}
                 ELSE {}
        oneOf == IF /\ "oneOf" \in DOMAIN m
                    /\ Cardinality({i \in DOMAIN m["oneOf"].v :
                                       Violations(res, id, m["oneOf"].v[i], data) = {}}) # 1
                 THEN {<<"oneOf", "">>} ELSE {}
        ref == IF "$ref" \notin DOMAIN m THEN {}
               ELSE IF IsPointer(m["$ref"].v)
                    THEN Violations(res, id, PtrTarget(res[id], Tail(m["$ref"].v)), data)
                    ELSE Violations(res, m["$ref"].v, res[m["$ref"].v], data)
    IN type \cup required \cup props \cup allOf \cup oneOf \cup ref

(***************************************************************************)
(* Specification documents the constructors are given                      *)
(***************************************************************************)
Names == {"A", "B"}
\* names a reference may end in: the declared ones and one that is never declared
RefTargets == Names \cup {"M"}

Ref(t) == Str(<<"#", "components", "schemas", t>>)

Leaf == ("type" :> S("object")) @@ ("required" :> List(<<S("x")>>))
RootRef(t) == ("$ref" :> Ref(t))
PropRef(t) == ("type" :> S("object")) @@ ("properties" :> Map("p" :> Map("$ref" :> Ref(t))))
ItemsRef(t) == ("type" :> S("array")) @@ ("items" :> Map("$ref" :> Ref(t)))
AllOfRef(t) == ("allOf" :> List(<<Map("$ref" :> Ref(t)), Map("required" :> List(<<S("y")>>))>>))
OneOfRef(t) == ("oneOf" :> List(<<Map("$ref" :> Ref(t))>>))
NoMarshal(t) == PropRef(t) @@ ("example" :> IMap)
BadRef == ("$ref" :> Num(5))
RequiresXY == ("type" :> S("object")) @@ ("required" :> List(<<S("x"), S("y")>>))
AllOfInline == ("allOf" :> List(<<Map(Leaf), Map("required" :> List(<<S("y")>>))>>))

\* the values a document may declare under a schema name
SchemaDefs ==
    {Map(Leaf), Map(BadRef), S("string")}
    \cup {Map(RootRef(t)) : t \in RefTargets}
    \cup {Map(PropRef(t)) : t \in RefTargets}
    \cup {Map(ItemsRef(t)) : t \in RefTargets}
    \cup {Map(AllOfRef(t)) : t \in RefTargets}
    \cup {Map(OneOfRef(t)) : t \in RefTargets}
    \cup {Map(NoMarshal(t)) : t \in RefTargets}

SchemaMaps == UNION {[ns -> SchemaDefs] : ns \in (SUBSET Names) \ {{}}}

ChannelSection ==
    Map(("orders/ingest" :> Map(("address" :> S("orders.ingest"))
                                 @@ ("description" :> S("Incoming orders"))))
        @@ ("pipeline/errors" :> Map("address" :> Num(7)))
        @@ ("broken" :> S("not a mapping")))

AsyncRoot(sm) ==
    ("channels" :> ChannelSection) @@ ("components" :> Map("schemas" :> Map(sm)))

Unreadable == [read |-> FALSE, parse |-> FALSE, root |-> EmptyMap]
Unparsable == [read |-> TRUE, parse |-> FALSE, root |-> EmptyMap]
Parsed(root) == [read |-> TRUE, parse |-> TRUE, root |-> root]

AsyncDocs ==
    {Unreadable, Unparsable, Parsed("asyncapi" :> S("3.0.0")),
     Parsed("components" :> Map("schemas" :> List(<<>>)))}
    \cup {Parsed(AsyncRoot(sm)) : sm \in SchemaMaps}

OpenDocs == {Unreadable, Unparsable, Parsed("openapi" :> S("3.1.0"))}

\* entries of components/schemas; os.ReadDir returns them sorted by filename
DirEntry(name, isDir, doc) == [name |-> name, isDir |-> isDir, doc |-> doc]
\* strings.HasSuffix(file.Name(), ".yaml"), for the file names of the model
HasYamlSuffix(name) == name \in {"_index.yaml", "archive.yaml", "common.yaml", "order.yaml"}
OneSchemaFiles == {Parsed(sm) : sm \in UNION {[{n} -> SchemaDefs] : n \in Names}}
FileDocs == {Unreadable, Unparsable} \cup OneSchemaFiles
     \cup {Parsed(("A" :> Map(PropRef("B"))) @@ ("B" :> Map(PropRef("A"))))}
LeadingEntries ==
    {<<>>,
     <<DirEntry("README.md", FALSE, Unreadable)>>,
     <<DirEntry("_index.yaml", FALSE, Parsed("A" :> Map(RootRef("M"))))>>,
     <<DirEntry("archive.yaml", TRUE, Unreadable)>>}
SchemaDirs ==
    {[ok |-> FALSE, entries |-> <<>>]}
    \cup {[ok |-> TRUE, entries |-> l] : l \in LeadingEntries}
    \cup {[ok |-> TRUE, entries |-> l \o <<DirEntry("common.yaml", FALSE, d)>>] :
             l \in LeadingEntries, d \in FileDocs}
    \cup {[ok |-> TRUE, entries |-> <<DirEntry("common.yaml", FALSE, d),
                                      DirEntry("order.yaml", FALSE, e)>>] :
             d \in OneSchemaFiles, e \in FileDocs}

NoDir == [ok |-> FALSE, entries |-> <<>>]

Inputs ==
    {[dialect |-> "asyncapi", specDoc |-> d, schemaDir |-> NoDir] : d \in AsyncDocs}
    \cup {[dialect |-> "openapi", specDoc |-> d, schemaDir |-> NoDir] : d \in OpenDocs}
    \cup {[dialect |-> "openapi", specDoc |-> Parsed("openapi" :> S("3.1.0")), schemaDir |-> sd] :
             sd \in SchemaDirs}

(***************************************************************************)
(* Constructors: NewAsyncAPIValidator / NewOpenAPIValidator                *)
(***************************************************************************)
NoSchemas == [n \in {} |-> <<>>]
NoChannels == [n \in {} |-> <<>>]
NoReturn == [kind |-> "none", err |-> <<>>]

\* the state after the struct literal of the constructor, before loadSpec
Constructed(in) ==
    /\ dialect = in.dialect
    /\ specDoc = in.specDoc
    /\ schemaDir = in.schemaDir
    /\ pc = "new"
    /\ fi = 1
    /\ todo = {}
    /\ ci = 1
    /\ resources = NoResources
    /\ compiled = {}
    /\ schemaNames = <<>>
    /\ schemas = NoSchemas
    /\ channels = NoChannels
    /\ ret = NoReturn

\* the error is dropped and the validator built so far is returned
FailReturnsValidator(msg) ==
    /\ pc' = "done"
    /\ ret' = [kind |-> "validator", err |-> <<>>]

\* return nil, fmt.Errorf(...)
Fail(msg) ==
    /\ pc' = "failed"
    /\ ret' = [kind |-> "error", err |-> msg]

getString(m, key) ==
    IF key \in DOMAIN m /\ m[key].k = "str" THEN m[key].v ELSE <<"">>

ParseChannels(root) ==
    IF "channels" \in DOMAIN root /\ root["channels"].k = "map"
    THEN LET chs == root["channels"].v
         IN [name \in {n \in DOMAIN chs : chs[n].k = "map"} |->
                [Name |-> name,
                 Address |-> getString(chs[name].v, "address"),
                 Description |-> getString(chs[name].v, "description")]]
    ELSE NoChannels

\* spec["components"]["schemas"] when both are mappings
SchemaSection(root) ==
    IF /\ "components" \in DOMAIN root
       /\ root["components"].k = "map"
       /\ "schemas" \in DOMAIN root["components"].v
       /\ root["components"].v["schemas"].k = "map"
    THEN root["components"].v["schemas"].v
    ELSE EmptyMap

\* what the body of the pass-1 loop does with one (name, schemaDef) pair
RegisterOutcome(prefix, def) ==
    IF def.k # "map" THEN "skip"
    ELSE IF Panics(def.v) THEN "panic"
    ELSE IF ~Marshalable(Map(toJSONSchema(prefix, def.v))) THEN "skip"
    ELSE "add"

RegisterSchema(prefix, name, def) ==
    LET out == RegisterOutcome(prefix, def)
    IN /\ resources' = IF out = "add"
                       THEN AddResource(resources, SchemaID(prefix, name),
                                        Map(toJSONSchema(prefix, def.v)))
                       ELSE resources
       /\ schemaNames' = IF out = "add" THEN Append(schemaNames, name) ELSE schemaNames
       /\ ret' = IF out = "panic" THEN [kind |-> "panic", err |-> <<>>] ELSE ret

\* single-pass loading: a schema is compiled as soon as it has been added
CompilePhaseSinglePass == pc \in {"pass1", "files", "pass2"}

\* the second pass starts when the first-pass loops have ended
CompilePhase == pc = "pass2"

CompileNext(prefix) ==
    LET name == schemaNames[ci]
        id == SchemaID(prefix, name)
    IN IF CompileOK(resources, compiled, id)
       THEN /\ schemas' = [n \in DOMAIN schemas \cup {name} |->
                              IF n = name THEN id ELSE schemas[n]]
            /\ compiled' = compiled \cup CompileSet(resources, compiled, id)
            /\ ci' = ci + 1
            /\ UNCHANGED <<pc, ret>>
       ELSE /\ Fail(<<"compiling schema", name>>)
            /\ UNCHANGED <<schemas, compiled, ci>>

ALoadSpec ==
    /\ dialect = "asyncapi"
    /\ pc = "new"
    /\ IF ~specDoc.read
       THEN Fail(<<"reading spec">>) /\ UNCHANGED <<channels, todo>>
       ELSE IF ~specDoc.parse
       THEN Fail(<<"parsing spec">>) /\ UNCHANGED <<channels, todo>>
       ELSE /\ channels' = ParseChannels(specDoc.root)
            /\ todo' = DOMAIN SchemaSection(specDoc.root)
            /\ pc' = IF todo' = {} THEN "pass2" ELSE "pass1"
            /\ ret' = ret
    /\ UNCHANGED <<fi, ci, resources, compiled, schemaNames, schemas>>
    /\ UNCHANGED <<inputVars, peerVars, pipelineVars, translatorVars, suiteVars, gor>>

APass1Step ==
    /\ dialect = "asyncapi"
    /\ pc = "pass1"
    /\ \E name \in todo :
          LET def == SchemaSection(specDoc.root)[name]
          IN /\ RegisterSchema(AsyncPrefix, name, def)
             /\ todo' = todo \ {name}
             /\ pc' = IF RegisterOutcome(AsyncPrefix, def) = "panic" THEN "panicked"
                      ELSE IF todo' = {} THEN "pass2" ELSE "pass1"
    /\ UNCHANGED <<fi, ci, compiled, schemas, channels>>
    /\ UNCHANGED <<inputVars, peerVars, pipelineVars, translatorVars, suiteVars, gor>>

APass2Step ==
    /\ dialect = "asyncapi"
    /\ CompilePhase
    /\ ci <= Len(schemaNames)
    /\ CompileNext(AsyncPrefix)
    /\ UNCHANGED <<fi, todo, resources, schemaNames, channels>>
    /\ UNCHANGED <<inputVars, peerVars, pipelineVars, translatorVars, suiteVars, gor>>

AReturn ==
    /\ dialect = "asyncapi"
    /\ pc = "pass2"
    /\ ci > Len(schemaNames)
    /\ pc' = "done"
    /\ ret' = [kind |-> "validator", err |-> <<>>]
    /\ UNCHANGED <<fi, todo, ci, resources, compiled, schemaNames, schemas, channels>>
    /\ UNCHANGED <<inputVars, peerVars, pipelineVars, translatorVars, suiteVars, gor>>

OLoadSpec ==
    /\ dialect = "openapi"
    /\ pc = "new"
    /\ IF ~specDoc.read THEN Fail(<<"reading spec">>)
       ELSE IF ~specDoc.parse THEN Fail(<<"parsing spec">>)
       ELSE IF ~schemaDir.ok THEN Fail(<<"reading schemas dir">>)
       ELSE pc' = "files" /\ ret' = ret
    /\ UNCHANGED <<fi, todo, ci, resources, compiled, schemaNames, schemas, channels>>
    /\ UNCHANGED <<inputVars, peerVars, pipelineVars, translatorVars, suiteVars, gor>>

OFileStep ==
    /\ dialect = "openapi"
    /\ pc = "files"
    /\ IF fi > Len(schemaDir.entries)
       THEN pc' = "pass2" /\ UNCHANGED <<fi, todo, ret>>
       ELSE LET file == schemaDir.entries[fi]
            IN IF file.isDir \/ ~HasYamlSuffix(file.name) \/ file.name = "_index.yaml"
               THEN fi' = fi + 1 /\ UNCHANGED <<pc, todo, ret>>
               ELSE IF ~file.doc.read
               THEN Fail(<<"reading schema file", file.name>>) /\ UNCHANGED <<fi, todo>>
               ELSE IF ~file.doc.parse
               THEN Fail(<<"parsing schema file", file.name>>) /\ UNCHANGED <<fi, todo>>
               ELSE /\ todo' = DOMAIN file.doc.root
                    /\ pc' = IF todo' = {} THEN "files" ELSE "pass1"
                    /\ fi' = IF todo' = {} THEN fi + 1 ELSE fi
                    /\ ret' = ret
    /\ UNCHANGED <<ci, resources, compiled, schemaNames, schemas, channels>>
    /\ UNCHANGED <<inputVars, peerVars, pipelineVars, translatorVars, suiteVars, gor>>

OPass1Step ==
    /\ dialect = "openapi"
    /\ pc = "pass1"
    /\ \E name \in todo :
          LET def == schemaDir.entries[fi].doc.root[name]
          IN /\ RegisterSchema(OpenPrefix, name, def)
             /\ todo' = todo \ {name}
             /\ pc' = IF RegisterOutcome(OpenPrefix, def) = "panic" THEN "panicked"
                      ELSE IF todo' = {} THEN "files" ELSE "pass1"
             /\ fi' = IF pc' = "files" THEN fi + 1 ELSE fi
    /\ UNCHANGED <<ci, compiled, schemas, channels>>
    /\ UNCHANGED <<inputVars, peerVars, pipelineVars, translatorVars, suiteVars, gor>>

OPass2Step ==
    /\ dialect = "openapi"
    /\ CompilePhase
    /\ ci <= Len(schemaNames)
    /\ CompileNext(OpenPrefix)
    /\ UNCHANGED <<fi, todo, resources, schemaNames, channels>>
    /\ UNCHANGED <<inputVars, peerVars, pipelineVars, translatorVars, suiteVars, gor>>

OReturn ==
    /\ dialect = "openapi"
    /\ pc = "pass2"
    /\ ci > Len(schemaNames)
    /\ pc' = "done"
    /\ ret' = [kind |-> "validator", err |-> <<>>]
    /\ UNCHANGED <<fi, todo, ci, resources, compiled, schemaNames, schemas, channels>>
    /\ UNCHANGED <<inputVars, peerVars, pipelineVars, translatorVars, suiteVars, gor>>

Load ==
    \/ ALoadSpec \/ APass1Step \/ APass2Step \/ AReturn
    \/ OLoadSpec \/ OFileStep \/ OPass1Step \/ OPass2Step \/ OReturn

(***************************************************************************)
(* Validation Facade: ValidateMessage / ValidateResponse                   *)
(***************************************************************************)
\* a Go error: the chain of message prefixes, outermost first, and what the
\* innermost message reports.  nil, and the empty string of err.Error(), is NoError
NoError == [chain |-> <<>>, detail |-> {}]
Errorf(prefix, err) == [chain |-> <<prefix>> \o err.chain, detail |-> err.detail]
NewError(prefix, detail) == [chain |-> <<prefix>>, detail |-> detail]

JSONError == [chain |-> <<>>, detail |-> {<<"json", "invalid character or unexpected end of input">>}]

\* a failed validation evicts the schema from the map
RegistryEvictOnFailure(schemaName, err) ==
    IF err # NoError
    THEN [n \in DOMAIN schemas \ {schemaName} |-> schemas[n]]
    ELSE schemas

\* the map v.schemas after a validation call on schemaName returned err
RegistryAfterValidate(schemaName, err) == schemas

\* a missing schema is treated as nothing to check
ValidateUnknownPasses(parsePrefix, schemaName, payload) ==
    IF schemaName \notin DOMAIN schemas
    THEN NoError
    ELSE IF ~JSONUnmarshal(payload).ok
    THEN Errorf(parsePrefix, JSONError)
    ELSE LET id == schemas[schemaName]
             broken == Violations(resources, id, resources[id], JSONUnmarshal(payload).data)
         IN IF broken # {}
            THEN NewError("schema validation failed", broken)
            ELSE NoError

\* the payload is parsed before the schema is looked up
ValidateParseFirst(parsePrefix, schemaName, payload) ==
    IF ~JSONUnmarshal(payload).ok
    THEN Errorf(parsePrefix, JSONError)
    ELSE IF schemaName \notin DOMAIN schemas
    THEN NewError("schema not found", {<<"name", schemaName>>})
    ELSE LET id == schemas[schemaName]
             broken == Violations(resources, id, resources[id], JSONUnmarshal(payload).data)
         IN IF broken # {}
            THEN NewError("schema validation failed", broken)
            ELSE NoError

\* a schema that has passed once is not validated again
ValidateCachedPass(parsePrefix, schemaName, payload) ==
    IF schemaName \notin DOMAIN schemas
    THEN NewError("schema not found", {<<"name", schemaName>>})
    ELSE IF \E i \in DOMAIN results : results[i].Schema = schemaName /\ results[i].Passed
    THEN NoError
    ELSE IF ~JSONUnmarshal(payload).ok
    THEN Errorf(parsePrefix, JSONError)
    ELSE LET id == schemas[schemaName]
             broken == Violations(resources, id, resources[id], JSONUnmarshal(payload).data)
         IN IF broken # {}
            THEN NewError("schema validation failed", broken)
            ELSE NoError

\* once a recorded call has failed, every later call is refused
ValidateHaltedAfterFailure(parsePrefix, schemaName, payload) ==
    IF \E i \in DOMAIN results : ~results[i].Passed
    THEN NewError("suite halted", {<<"name", schemaName>>})
    ELSE IF schemaName \notin DOMAIN schemas
    THEN NewError("schema not found", {<<"name", schemaName>>})
    ELSE IF ~JSONUnmarshal(payload).ok
    THEN Errorf(parsePrefix, JSONError)
    ELSE LET id == schemas[schemaName]
             broken == Violations(resources, id, resources[id], JSONUnmarshal(payload).data)
         IN IF broken # {}
            THEN NewError("schema validation failed", broken)
            ELSE NoError

Validate(parsePrefix, schemaName, payload) ==
    IF schemaName \notin DOMAIN schemas
    THEN NewError("schema not found", {<<"name", schemaName>>})
    ELSE IF ~JSONUnmarshal(payload).ok
    THEN Errorf(parsePrefix, JSONError)
    ELSE LET id == schemas[schemaName]
             broken == Violations(resources, id, resources[id], JSONUnmarshal(payload).data)
         IN IF broken # {}
            THEN NewError("schema validation failed", broken)
            ELSE NoError

ValidateMessage(schemaName, payload) ==
    Validate("parsing message payload", schemaName, payload)

ValidateResponse(schemaName, body) ==
    Validate("parsing response body", schemaName, body)

(***************************************************************************)
(* Contract Test Suites                                                    *)
(***************************************************************************)
MaxCalls == 3

ChannelArgs == {"orders/ingest", "no/such/channel"}
SchemaArgs == {"A", "B"}
Payloads == {"{", "{}", "{\"x\":1}"}

NoCall == [op |-> "none", schema |-> "", payload |-> "", err |-> NoError, out |-> <<>>]

\* NewEventContractTestSuite / NewContractTestSuite returned a suite
SuiteReady == pc = "done" /\ ret.kind = "validator"

\* a return path that fails leaves without recording its result
AppendResultPassedOnly(rs, result) == IF result.Passed THEN Append(rs, result) ELSE rs

\* s.results = append(s.results, result)
AppendResult(rs, result) == Append(rs, result)

\* a channel the specification does not declare is an error of its own
EventResultChannelChecked(channel, schema, payload) ==
    LET err == IF channel \notin DOMAIN channels
               THEN NewError("channel not found", {<<"name", channel>>})
               ELSE ValidateMessage(schema, payload)
    IN [Channel |-> channel, Schema |-> schema, Payload |-> payload,
        Passed |-> (err = NoError), Error |-> err]

EventResult(channel, schema, payload) ==
    LET err == ValidateMessage(schema, payload)
    IN [Channel |-> channel, Schema |-> schema, Payload |-> payload,
        Passed |-> (err = NoError), Error |-> err]

ValidateEvent ==
    /\ dialect = "asyncapi"
    /\ SuiteReady
    /\ calls < MaxCalls
    /\ \E channel \in ChannelArgs, schema \in SchemaArgs, payload \in Payloads :
          LET result == EventResult(channel, schema, payload)
          IN /\ results' = AppendResult(results, result)
             /\ schemas' = RegistryAfterValidate(schema, result.Error)
             /\ lastCall' = [op |-> "ValidateEvent", schema |-> schema, payload |-> payload,
                             err |-> result.Error, out |-> <<result>>]
    /\ calls' = calls + 1
    /\ UNCHANGED <<pc, fi, todo, ci, resources, compiled, schemaNames, channels, ret>>
    /\ UNCHANGED <<inputVars, peerVars, pipelineVars, translatorVars, gor>>

\* what the HTTP side of RunTest meets: the method given, whether client.Do
\* fails, and the response
Exchange(method, doErr, status, body) ==
    [method |-> method, doErr |-> doErr, status |-> status, body |-> body]
Exchanges ==
    {Exchange("GET", FALSE, 200, "{\"x\":1}"),
     Exchange("GET", FALSE, 200, "{}"),
     Exchange("GET", FALSE, 200, "{"),
     Exchange("GET", FALSE, 200, ""),
     Exchange("GET", FALSE, 500, "{}"),
     Exchange("GET", TRUE, 0, ""),
     Exchange("BAD METHOD", FALSE, 0, "")}
\* http.NewRequestWithContext rejects a method that is not a token
ValidMethod(method) == method # "BAD METHOD"
ExpectedStatuses == {200}
RunSchemaArgs == {"", "A"}

RunTestResult(ex, path, expectedStatus, responseSchema) ==
    LET base == [Endpoint |-> path, Method |-> ex.method, Schema |-> responseSchema,
                 Passed |-> FALSE, Error |-> NoError, RequestBody |-> "", Response |-> ""]
        verr == ValidateResponse(responseSchema, ex.body)
    IN IF ~ValidMethod(ex.method)
       THEN [base EXCEPT !.Error = NewError("creating request", {<<"method", ex.method>>})]
       ELSE IF ex.doErr
       THEN [base EXCEPT !.Error = NewError("executing request", {<<"transport", "error">>})]
       ELSE IF ex.status # expectedStatus
       THEN [base EXCEPT !.Response = ex.body,
                         !.Error = NewError("expected status",
                                            {<<ToString(expectedStatus), ToString(ex.status)>>})]
       ELSE IF responseSchema # "" /\ ex.body # "" /\ verr # NoError
       THEN [base EXCEPT !.Response = ex.body, !.Error = Errorf("schema validation", verr)]
       ELSE [base EXCEPT !.Response = ex.body, !.Passed = TRUE]

\* RunTest reaches its call of ValidateResponse
RunValidates(ex, expectedStatus, responseSchema) ==
    /\ ValidMethod(ex.method)
    /\ ~ex.doErr
    /\ ex.status = expectedStatus
    /\ responseSchema # ""
    /\ ex.body # ""

RunTest ==
    /\ dialect = "openapi"
    /\ SuiteReady
    /\ calls < MaxCalls
    /\ \E ex \in Exchanges, schema \in RunSchemaArgs, expected \in ExpectedStatuses :
          LET result == RunTestResult(ex, "/health", expected, schema)
              validated == RunValidates(ex, expected, schema)
          IN /\ results' = AppendResult(results, result)
             /\ schemas' = IF validated
                           THEN RegistryAfterValidate(schema, ValidateResponse(schema, ex.body))
                           ELSE schemas
             /\ lastCall' = [op |-> "RunTest", schema |-> schema, payload |-> ex.body,
                             err |-> IF validated THEN ValidateResponse(schema, ex.body)
                                     ELSE NoError,
                             out |-> <<result>>]
    /\ calls' = calls + 1
    /\ UNCHANGED <<pc, fi, todo, ci, resources, compiled, schemaNames, channels, ret>>
    /\ UNCHANGED <<inputVars, peerVars, pipelineVars, translatorVars, gor>>

\* a direct call of the facade, outside the suite
ValidateCall ==
    /\ SuiteReady
    /\ calls < MaxCalls
    /\ \E schema \in SchemaArgs, payload \in Payloads \cup {""} :
          LET err == IF dialect = "asyncapi" THEN ValidateMessage(schema, payload)
                     ELSE ValidateResponse(schema, payload)
          IN /\ schemas' = RegistryAfterValidate(schema, err)
             /\ lastCall' = [op |-> IF dialect = "asyncapi" THEN "ValidateMessage"
                                    ELSE "ValidateResponse",
                             schema |-> schema, payload |-> payload, err |-> err, out |-> <<>>]
    /\ calls' = calls + 1
    /\ UNCHANGED <<pc, fi, todo, ci, resources, compiled, schemaNames, channels, ret, results>>
    /\ UNCHANGED <<inputVars, peerVars, pipelineVars, translatorVars, gor>>

RECURSIVE CountPassed(_)
CountPassed(rs) ==
    IF rs = <<>> THEN 0
    ELSE (IF Head(rs).Passed THEN 1 ELSE 0) + CountPassed(Tail(rs))

\* every result is counted as failed, the passed ones a second time
SummaryOfFailedCountsAll(rs) == <<CountPassed(rs), Len(rs)>>

\* Summary(): (passed, failed)
SummaryOf(rs) == <<CountPassed(rs), Len(rs) - CountPassed(rs)>>

Summary ==
    /\ SuiteReady
    /\ lastCall.op # "Summary"
    /\ lastCall' = [op |-> "Summary", schema |-> "", payload |-> "", err |-> NoError,
                    out |-> SummaryOf(results)]
    /\ UNCHANGED <<loaderVars, inputVars, peerVars, pipelineVars, translatorVars, results, calls, gor>>

Results ==
    /\ SuiteReady
    /\ lastCall.op # "Results"
    /\ lastCall' = [op |-> "Results", schema |-> "", payload |-> "", err |-> NoError,
                    out |-> results]
    /\ UNCHANGED <<loaderVars, inputVars, peerVars, pipelineVars, translatorVars, results, calls, gor>>

\* toJSONSchema is not followed on its own
NotCalled == [kind |-> "none", v |-> EmptyMap]
NotTranslating == node = EmptyMap /\ translated = NotCalled

\* no second validator is constructed
NoPeer == peer = [pc |-> "none"]

\* no pipeline runner is constructed
NoPipeline ==
    /\ router = "none"
    /\ stages = EmptyMap
    /\ topicLog = EmptyMap
    /\ waiting = EmptyMap
    /\ inflight = EmptyMap
    /\ attempt = EmptyMap
    /\ ingested = 0

Init ==
    /\ \E in \in Inputs : Constructed(in)
    /\ results = <<>>
    /\ lastCall = NoCall
    /\ calls = 0
    /\ gor = <<>>
    /\ NotTranslating
    /\ NoPeer
    /\ NoPipeline

Next == Load

Spec == Init /\ [][Next]_vars

\* the specifications the suites are run against
SuiteInputs ==
    {[dialect |-> "asyncapi", specDoc |-> Parsed(AsyncRoot(sm)), schemaDir |-> NoDir] :
        sm \in {("A" :> Map(Leaf)),
                ("A" :> Map(AllOfRef("B"))) @@ ("B" :> Map(Leaf)),
                ("A" :> Map(PropRef("B"))) @@ ("B" :> Map(PropRef("A"))),
                ("A" :> Map(RootRef("M")))}}
    \cup {[dialect |-> "openapi", specDoc |-> Parsed("openapi" :> S("3.1.0")),
           schemaDir |-> [ok |-> TRUE, entries |-> es]] :
            es \in {<<DirEntry("common.yaml", FALSE, Parsed("A" :> Map(Leaf)))>>,
                    <<DirEntry("_index.yaml", FALSE, Parsed("A" :> Map(RootRef("M")))),
                      DirEntry("common.yaml", FALSE, Parsed("B" :> Map(Leaf)))>>,
                    <<DirEntry("common.yaml", FALSE, Parsed("B" :> Map(Leaf))),
                      DirEntry("order.yaml", FALSE, Parsed("A" :> Map(AllOfRef("B"))))>>}}

InitSuite ==
    /\ \E in \in SuiteInputs : Constructed(in)
    /\ results = <<>>
    /\ lastCall = NoCall
    /\ calls = 0
    /\ gor = <<>>
    /\ NotTranslating
    /\ NoPeer
    /\ NoPipeline

NextSuite == Load \/ ValidateEvent \/ RunTest \/ ValidateCall \/ Summary \/ Results

SpecSuite == InitSuite /\ [][NextSuite]_vars

(***************************************************************************)
(* The facade called directly on validators built from specifications that *)
(* compose schemas, with payloads that satisfy all, some or none of the    *)
(* composed parts                                                          *)
(***************************************************************************)
FacadeInputs ==
    {[dialect |-> "asyncapi", specDoc |-> Parsed(AsyncRoot(sm)), schemaDir |-> NoDir] :
        sm \in {("A" :> Map(AllOfRef("B"))) @@ ("B" :> Map(Leaf)),
                ("A" :> Map(AllOfInline)) @@ ("B" :> Map(RequiresXY))}}
    \cup {[dialect |-> "openapi", specDoc |-> Parsed("openapi" :> S("3.1.0")),
           schemaDir |-> [ok |-> TRUE, entries |-> es]] :
            es \in {<<DirEntry("common.yaml", FALSE, Parsed("B" :> Map(Leaf))),
                      DirEntry("order.yaml", FALSE, Parsed("A" :> Map(AllOfRef("B"))))>>,
                    <<DirEntry("_index.yaml", FALSE, Parsed("B" :> Map(Leaf))),
                      DirEntry("common.yaml", FALSE,
                               Parsed(("A" :> Map(AllOfInline)) @@ ("B" :> Map(RequiresXY))))>>}}

FacadePayloads == Payloads \cup {"{\"x\":1,\"y\":1}", "null", "1"}

\* v.ValidateMessage(schemaName, payload) / v.ValidateResponse(schemaName, body)
FacadeCall ==
    /\ SuiteReady
    /\ calls < MaxCalls
    /\ \E schema \in SchemaArgs, payload \in FacadePayloads :
          LET err == IF dialect = "asyncapi" THEN ValidateMessage(schema, payload)
                     ELSE ValidateResponse(schema, payload)
          IN /\ schemas' = RegistryAfterValidate(schema, err)
             /\ lastCall' = [op |-> IF dialect = "asyncapi" THEN "ValidateMessage"
                                    ELSE "ValidateResponse",
                             schema |-> schema, payload |-> payload, err |-> err, out |-> <<>>]
    /\ calls' = calls + 1
    /\ UNCHANGED <<pc, fi, todo, ci, resources, compiled, schemaNames, channels, ret, results>>
    /\ UNCHANGED <<inputVars, peerVars, pipelineVars, translatorVars, gor>>

InitFacade ==
    /\ \E in \in FacadeInputs : Constructed(in)
    /\ results = <<>>
    /\ lastCall = NoCall
    /\ calls = 0
    /\ gor = <<>>
    /\ NotTranslating
    /\ NoPeer
    /\ NoPipeline

NextFacade == Load \/ FacadeCall

SpecFacade == InitFacade /\ [][NextFacade]_vars

(***************************************************************************)
(* ValidateEvent called from several goroutines on one suite.  The method  *)
(* takes no lock: the statement s.results = append(s.results, result)      *)
(* reads the slice and writes it back as two separate memory accesses.     *)
(***************************************************************************)
NumGoroutines == 2
Goroutines == 1..NumGoroutines

NoResult == [Channel |-> "", Schema |-> "", Payload |-> "", Passed |-> FALSE, Error |-> NoError]
Idle == [pc |-> "idle", result |-> NoResult, snap |-> <<>>]

\* lines 215-225: the result is built from the arguments and the verdict
GoCall(g) ==
    /\ SuiteReady
    /\ gor[g].pc = "idle"
    /\ \E channel \in ChannelArgs, payload \in Payloads :
          gor' = [gor EXCEPT ![g] = [pc |-> "load", snap |-> <<>>,
                                     result |-> EventResult(channel, "A", payload)]]
    /\ UNCHANGED <<loaderVars, inputVars, peerVars, pipelineVars, translatorVars, suiteVars>>

\* line 227, right-hand side: append reads s.results
GoLoad(g) ==
    /\ gor[g].pc = "load"
    /\ gor' = [gor EXCEPT ![g].pc = "store", ![g].snap = results]
    /\ UNCHANGED <<loaderVars, inputVars, peerVars, pipelineVars, translatorVars, suiteVars>>

\* line 227, assignment: the slice built from what was read is stored
GoStore(g) ==
    /\ gor[g].pc = "store"
    /\ results' = AppendResult(gor[g].snap, gor[g].result)
    /\ gor' = [gor EXCEPT ![g].pc = "returned"]
    /\ UNCHANGED <<loaderVars, inputVars, peerVars, pipelineVars, translatorVars, lastCall, calls>>

InitConc ==
    /\ \E in \in {i \in SuiteInputs : i.dialect = "asyncapi"} : Constructed(in)
    /\ results = <<>>
    /\ lastCall = NoCall
    /\ calls = 0
    /\ gor = [g \in Goroutines |-> Idle]
    /\ NotTranslating
    /\ NoPeer
    /\ NoPipeline

NextConc ==
    \/ ALoadSpec \/ APass1Step \/ APass2Step \/ AReturn
    \/ \E g \in Goroutines : GoCall(g) \/ GoLoad(g) \/ GoStore(g)

SpecConc == InitConc /\ [][NextConc]_vars

(***************************************************************************)
(* The Schema Dialect Translator on its own: the call toJSONSchema(m) that *)
(* pass 1 makes for a declared schema m, for source nodes of every shape   *)
(* the switch distinguishes                                                *)
(***************************************************************************)
\* reference strings: "#/components/schemas/<t>", "B", "./common.yaml#/B",
\* "#/components/schemas/" and ""
RefForms ==
    {Ref(t) : t \in RefTargets}
    \cup {Str(<<"B">>), Str(<<".", "common.yaml#", "B">>),
          Str(<<"#", "components", "schemas", "">>), Str(<<"">>)}

Draft07 == Str(<<"http:", "", "json-schema.org", "draft-07", "schema#">>)

SourceNodes ==
    {Leaf, RequiresXY, AllOfInline, BadRef}
    \cup {("$ref" :> r) : r \in RefForms}
    \cup {("type" :> S("object")) @@ ("properties" :> Map("p" :> Map("$ref" :> r))) :
             r \in RefForms}
    \cup {("type" :> S("array")) @@ ("items" :> Map("$ref" :> r)) : r \in RefForms}
    \cup {("allOf" :> List(<<Map("$ref" :> r), Map("required" :> List(<<S("y")>>))>>)) :
             r \in RefForms}
    \cup {OneOfRef(t) : t \in RefTargets}
    \cup {NoMarshal(t) : t \in RefTargets}
    \cup {("$schema" :> Draft07) @@ Leaf,
          ("type" :> S("object")) @@ ("properties" :> Nil),
          ("type" :> S("object")) @@ ("properties" :> Map(("p" :> Bool(TRUE)) @@ ("q" :> Map(Leaf)))),
          ("type" :> S("array")) @@ ("items" :> Bool(FALSE)),
          ("type" :> S("array")) @@ ("items" :> List(<<Map(Leaf)>>)),
          ("allOf" :> Map(Leaf)),
          ("allOf" :> List(<<Bool(TRUE), Map(Leaf)>>))}

\* the document that declares node m as its schema A
DeclaringInput(d, m) ==
    IF d = "asyncapi"
    THEN [dialect |-> d, specDoc |-> Parsed(AsyncRoot("A" :> Map(m))), schemaDir |-> NoDir]
    ELSE [dialect |-> d, specDoc |-> Parsed("openapi" :> S("3.1.0")),
          schemaDir |-> [ok |-> TRUE,
                         entries |-> <<DirEntry("common.yaml", FALSE, Parsed("A" :> Map(m)))>>]]

InitTranslate ==
    /\ \E d \in {"asyncapi", "openapi"}, m \in SourceNodes :
          /\ Constructed(DeclaringInput(d, m))
          /\ node = m
    /\ translated = NotCalled
    /\ results = <<>>
    /\ lastCall = NoCall
    /\ calls = 0
    /\ gor = <<>>
    /\ NoPeer
    /\ NoPipeline

\* jsonSchema := v.toJSONSchema(schemaMap)
Translate ==
    /\ translated = NotCalled
    /\ translated' = IF Panics(node)
                      THEN [kind |-> "panic", v |-> EmptyMap]
                      ELSE [kind |-> "value", v |-> toJSONSchema(Prefix(dialect), node)]
    /\ UNCHANGED <<loaderVars, inputVars, peerVars, pipelineVars, suiteVars, gor, node>>

NextTranslate == Translate

SpecTranslate == InitTranslate /\ [][NextTranslate]_vars

(***************************************************************************)
(* Two validators in one process.  The first is the validator followed by  *)
(* the loader variables; the second (peer) is built by another call of     *)
(* NewAsyncAPIValidator on its own specification, its steps interleaved    *)
(* with those of the first.                                                *)
(***************************************************************************)
\* one registry for the whole process: every constructor uses the compiler
\* of the first validator
CompilerOfProcess(inst) == "first"

\* compiler: jsonschema.NewCompiler() in the struct literal: the compiler
\* that validator inst registers into and compiles from is its own
CompilerOf(inst) == inst

PeerSchemaMaps ==
    {("A" :> Map(RequiresXY)),
     ("A" :> Map(PropRef("B"))) @@ ("B" :> Map(RequiresXY)),
     ("A" :> Map(RootRef("M")))}

IsolationInputs ==
    {[dialect |-> "asyncapi", specDoc |-> Parsed(AsyncRoot(sm)), schemaDir |-> NoDir] :
        sm \in {("A" :> Map(Leaf)),
                ("A" :> Map(AllOfRef("B"))) @@ ("B" :> Map(Leaf))}}
    \cup {[dialect |-> "openapi", specDoc |-> Parsed("openapi" :> S("3.1.0")),
           schemaDir |-> [ok |-> TRUE,
                          entries |-> <<DirEntry("common.yaml", FALSE, Parsed("A" :> Map(Leaf)))>>]]}

\* the peer after the struct literal of its constructor
NewPeer(sm) ==
    [pc |-> "new", sm |-> sm, todo |-> {}, ci |-> 1, resources |-> NoResources,
     compiled |-> {}, schemaNames |-> <<>>, schemas |-> NoSchemas, ret |-> NoReturn,
     last |-> NoCall]

PeerResources == IF CompilerOf("peer") = "peer" THEN peer.resources ELSE resources
PeerCompiled == IF CompilerOf("peer") = "peer" THEN peer.compiled ELSE compiled

\* the peer's loadSpec up to the range loop over the schema section
PeerLoadSpec ==
    /\ peer.pc = "new"
    /\ peer' = [peer EXCEPT !.todo = DOMAIN peer.sm,
                            !.pc = IF DOMAIN peer.sm = {} THEN "pass2" ELSE "pass1"]
    /\ UNCHANGED <<loaderVars, inputVars, pipelineVars, translatorVars, suiteVars, gor>>

\* one iteration of the peer's first pass
PeerPass1Step ==
    /\ peer.pc = "pass1"
    /\ \E name \in peer.todo :
          LET def == peer.sm[name]
              out == RegisterOutcome(AsyncPrefix, def)
              rest == peer.todo \ {name}
              added == AddResource(PeerResources, SchemaID(AsyncPrefix, name),
                                   Map(toJSONSchema(AsyncPrefix, def.v)))
              own == CompilerOf("peer") = "peer"
          IN /\ peer' = [peer EXCEPT
                    !.todo = rest,
                    !.pc = IF out = "panic" THEN "panicked"
                           ELSE IF rest = {} THEN "pass2" ELSE "pass1",
                    !.ret = IF out = "panic" THEN [kind |-> "panic", err |-> <<>>] ELSE @,
                    !.schemaNames = IF out = "add" THEN Append(@, name) ELSE @,
                    !.resources = IF out = "add" /\ own THEN added ELSE @]
             /\ resources' = IF out = "add" /\ ~own THEN added ELSE resources
    /\ UNCHANGED <<pc, fi, todo, ci, compiled, schemaNames, schemas, channels, ret>>
    /\ UNCHANGED <<inputVars, pipelineVars, translatorVars, suiteVars, gor>>

\* one iteration of the peer's second pass
PeerPass2Step ==
    /\ peer.pc = "pass2"
    /\ peer.ci <= Len(peer.schemaNames)
    /\ LET name == peer.schemaNames[peer.ci]
           id == SchemaID(AsyncPrefix, name)
           own == CompilerOf("peer") = "peer"
           done == PeerCompiled \cup CompileSet(PeerResources, PeerCompiled, id)
       IN IF CompileOK(PeerResources, PeerCompiled, id)
          THEN /\ peer' = [peer EXCEPT
                      !.schemas = [n \in DOMAIN @ \cup {name} |-> IF n = name THEN id ELSE @[n]],
                      !.compiled = IF own THEN done ELSE @,
                      !.ci = @ + 1]
               /\ compiled' = IF own THEN compiled ELSE done
          ELSE /\ peer' = [peer EXCEPT
                      !.pc = "failed",
                      !.ret = [kind |-> "error", err |-> <<"compiling schema", name>>]]
               /\ compiled' = compiled
    /\ UNCHANGED <<pc, fi, todo, ci, resources, schemaNames, schemas, channels, ret>>
    /\ UNCHANGED <<inputVars, pipelineVars, translatorVars, suiteVars, gor>>

PeerReturn ==
    /\ peer.pc = "pass2"
    /\ peer.ci > Len(peer.schemaNames)
    /\ peer' = [peer EXCEPT !.pc = "done", !.ret = [kind |-> "validator", err |-> <<>>]]
    /\ UNCHANGED <<loaderVars, inputVars, pipelineVars, translatorVars, suiteVars, gor>>

\* the facade of the peer: ValidateMessage(schemaName, payload)
PeerValidate(schemaName, payload) ==
    IF schemaName \notin DOMAIN peer.schemas
    THEN NewError("schema not found", {<<"name", schemaName>>})
    ELSE IF ~JSONUnmarshal(payload).ok
    THEN Errorf("parsing message payload", JSONError)
    ELSE LET id == peer.schemas[schemaName]
             broken == Violations(PeerResources, id, PeerResources[id],
                                  JSONUnmarshal(payload).data)
         IN IF broken # {}
            THEN NewError("schema validation failed", broken)
            ELSE NoError

PeerCall ==
    /\ peer.pc = "done"
    /\ calls < MaxCalls
    /\ \E schema \in SchemaArgs, payload \in FacadePayloads :
          peer' = [peer EXCEPT !.last = [op |-> "ValidateMessage", schema |-> schema,
                                         payload |-> payload,
                                         err |-> PeerValidate(schema, payload),
                                         out |-> <<>>]]
    /\ calls' = calls + 1
    /\ UNCHANGED <<loaderVars, inputVars, pipelineVars, translatorVars, results, lastCall, gor>>

InitIsolation ==
    /\ \E in \in IsolationInputs : Constructed(in)
    /\ \E sm \in PeerSchemaMaps : peer = NewPeer(sm)
    /\ results = <<>>
    /\ lastCall = NoCall
    /\ calls = 0
    /\ gor = <<>>
    /\ NotTranslating
    /\ NoPipeline

NextIsolation ==
    \/ Load \/ FacadeCall
    \/ PeerLoadSpec \/ PeerPass1Step \/ PeerPass2Step \/ PeerReturn \/ PeerCall

SpecIsolation == InitIsolation /\ [][NextIsolation]_vars

(***************************************************************************)
(* The event pipeline of internal/pipeline: a watermill Router with three  *)
(* handlers on an in-memory gochannel Pub/Sub.                             *)
(*                                                                         *)
(* A message is [payload, metadata]; the payload is the JSON document its  *)
(* bytes encode, as a tagged value, or NotJSON for bytes that do not       *)
(* parse.  watermill's behaviour, as far as runner.go relies on it:        *)
(*  - gochannel without Persistent delivers a published message to the     *)
(*    subscribers the topic has at that moment and drops it otherwise;     *)
(*  - a subscriber is sent one message at a time: the next one is sent     *)
(*    when the current one is acknowledged, and a message that is          *)
(*    negatively acknowledged is sent again;                               *)
(*  - the router subscribes its handlers in Run; a handler that returns    *)
(*    an error makes the router Nack the message, otherwise the produced   *)
(*    messages are published on the handler's publish topic, then Ack;     *)
(*  - middleware.Retry calls the handler again, up to MaxRetries times,    *)
(*    while it returns an error; middleware.Recoverer turns a panic of     *)
(*    the handler into an error.                                           *)
(***************************************************************************)
TopicOrdersIngest == "orders.ingest"
TopicOrdersValidated == "orders.validated"
TopicOrdersEnriched == "orders.enriched"
TopicOrdersRouted == "orders.routed"
TopicOrdersDLQ == "orders.dlq"
Topics == {TopicOrdersIngest, TopicOrdersValidated, TopicOrdersEnriched,
           TopicOrdersRouted, TopicOrdersDLQ}

Handlers == {"validate_order", "enrich_order", "route_order"}

\* the route handler listens to the validated orders
SubscribeTopicSkipsEnrich(h) ==
    CASE h = "validate_order" -> TopicOrdersIngest
      [] h = "enrich_order" -> TopicOrdersValidated
      [] h = "route_order" -> TopicOrdersValidated

\* router.AddHandler(name, subscribeTopic, pubSub, publishTopic, pubSub, handlerFunc)
SubscribeTopic(h) ==
    CASE h = "validate_order" -> TopicOrdersIngest
      [] h = "enrich_order" -> TopicOrdersValidated
      [] h = "route_order" -> TopicOrdersEnriched

PublishTopic(h) ==
    CASE h = "validate_order" -> TopicOrdersValidated
      [] h = "enrich_order" -> TopicOrdersEnriched
      [] h = "route_order" -> TopicOrdersRouted

StageOf(h) ==
    CASE h = "validate_order" -> "validate"
      [] h = "enrich_order" -> "enrich"
      [] h = "route_order" -> "route"

\* cfg.RetryMaxAttempts, RETRY_MAX_ATTEMPTS unset
RetryMaxAttempts == 3

\* orders ingested in one run
MaxOrders == 2
\* ProcessedTotal is followed up to this count; larger counts are not told apart
MaxProcessed == 5

NotJSON == [k |-> "bytes", v |-> "{"]
Now == S("time")
Message(payload, correlationId) == [payload |-> payload, metadata |-> correlationId]

\* json.Unmarshal(msg.Payload, &order) with order a nil map[string]any:
\* an object fills the map, null leaves it nil, anything else is an error
Unmarshal(payload) ==
    CASE payload.k = "map" -> [ok |-> TRUE, isNil |-> FALSE, m |-> payload.v]
      [] payload.k = "nil" -> [ok |-> TRUE, isNil |-> TRUE, m |-> EmptyMap]
      [] OTHER -> [ok |-> FALSE, isNil |-> TRUE, m |-> EmptyMap]

\* order[key]: nil for a missing key and for a JSON null
Lookup(m, key) == IF key \in DOMAIN m THEN m[key] ELSE Nil

\* order[key] = val
Assign(m, key, val) == [x \in DOMAIN m \cup {key} |-> IF x = key THEN val ELSE m[x]]

Failed(msg) == [err |-> msg, out |-> <<>>]
Produced(m) == [err |-> "", out |-> <<Map(m)>>]

\* items are not looked at
handleValidateIgnoresItems(payload) ==
    LET u == Unmarshal(payload)
        order == u.m
    IN IF ~u.ok THEN Failed("unmarshaling order")
       ELSE IF Lookup(order, "customerId") = Nil \/ Lookup(order, "customerId") = S("")
       THEN Failed("customerId is required")
       ELSE Produced(Assign(Assign(order, "validatedAt", Now), "validationResult",
                            Map(("isValid" :> Bool(TRUE)) @@ ("warnings" :> List(<<>>)))))

handleValidate(payload) ==
    LET u == Unmarshal(payload)
        order == u.m
        items == Lookup(order, "items")
    IN IF ~u.ok THEN Failed("unmarshaling order")
       ELSE IF Lookup(order, "customerId") = Nil \/ Lookup(order, "customerId") = S("")
       THEN Failed("customerId is required")
       ELSE IF ~(items.k = "list") \/ Len(items.v) = 0
       THEN Failed("at least one item is required")
       ELSE Produced(Assign(Assign(order, "validatedAt", Now), "validationResult",
                            Map(("isValid" :> Bool(TRUE)) @@ ("warnings" :> List(<<>>)))))

\* writing to the nil map that a null payload leaves panics
handleEnrich(payload) ==
    LET u == Unmarshal(payload)
        order == u.m
    IN IF ~u.ok THEN Failed("unmarshaling order")
       ELSE IF u.isNil THEN Failed("panic: assignment to entry in nil map")
       ELSE Produced(Assign(Assign(Assign(order, "enrichedAt", Now),
                "customer", Map(("tier" :> S("gold")) @@ ("accountAge" :> Num(365))
                                @@ ("lifetimeValue" :> Num(1500)))),
                "fraudScore", Map(("score" :> Num(15)) @@ ("riskLevel" :> S("low"))
                                  @@ ("signals" :> List(<<>>)))))

\* order["fraudScore"].(map[string]any)["score"].(float64), 0.0 when either
\* assertion fails
FraudScoreOf(order) ==
    LET fs == Lookup(order, "fraudScore")
    IN IF fs.k = "map" /\ Lookup(fs.v, "score").k = "num" THEN Lookup(fs.v, "score").v ELSE 0

Destination(fraudScore) ==
    IF fraudScore > 50
    THEN <<"manual-review", "High fraud score requires manual review">>
    ELSE IF fraudScore > 80
    THEN <<"rejected", "Fraud score exceeds threshold">>
    ELSE <<"fulfillment", "All checks passed">>

handleRoute(payload) ==
    LET u == Unmarshal(payload)
        order == u.m
        d == Destination(FraudScoreOf(order))
    IN IF ~u.ok THEN Failed("unmarshaling order")
       ELSE IF u.isNil THEN Failed("panic: assignment to entry in nil map")
       ELSE Produced(Assign(Assign(Assign(order, "routedAt", Now),
                                   "destination", S(d[1])), "routingReason", S(d[2])))

HandlerFunc(h, payload) ==
    CASE h = "validate_order" -> handleValidate(payload)
      [] h = "enrich_order" -> handleEnrich(payload)
      [] h = "route_order" -> handleRoute(payload)

\* a stage that has processed a message is reported as degraded
recordMetricsDegrades(st, stage) ==
    IF stage \in DOMAIN st
    THEN [st EXCEPT ![stage].ProcessedTotal = IF @ < MaxProcessed THEN @ + 1 ELSE @,
                    ![stage].Status = "degraded"]
    ELSE st

\* recordMetrics(stage, start)
recordMetrics(st, stage) ==
    IF stage \in DOMAIN st
    THEN [st EXCEPT ![stage].ProcessedTotal = IF @ < MaxProcessed THEN @ + 1 ELSE @]
    ELSE st

\* the stages map of the struct literal in New
NewStages ==
    [id \in {"validate", "enrich", "route"} |->
        [StageId |-> id, Status |-> "healthy", ProcessedTotal |-> 0]]

\* GetStages(): one summary per entry of r.stages, in the order the range
\* loop happens to visit them; the set of slices it can return
GetStages ==
    LET n == Cardinality(DOMAIN stages)
    IN {[i \in 1..n |-> [StageId |-> stages[order[i]].StageId,
                         Status |-> stages[order[i]].Status]] :
           order \in {o \in [1..n -> DOMAIN stages] :
                         \A i, j \in 1..n : i # j => o[i] # o[j]}}

\* GetStage(stageID): <<>> stands for nil
GetStage(stageID) ==
    IF stageID \in DOMAIN stages
    THEN <<[StageId |-> stages[stageID].StageId, Status |-> stages[stageID].Status]>>
    ELSE <<>>

\* the Runner that New returns
NewRunner ==
    /\ router = "created"
    /\ stages = NewStages
    /\ topicLog = [t \in Topics |-> <<>>]
    /\ waiting = [h \in Handlers |-> {}]
    /\ inflight = [h \in Handlers |-> {}]
    /\ attempt = [h \in Handlers |-> 0]
    /\ ingested = 0

\* the pipeline is followed on its own: no validator is under construction
NoValidator ==
    /\ Constructed([dialect |-> "asyncapi", specDoc |-> Unreadable, schemaDir |-> NoDir])
    /\ results = <<>>
    /\ lastCall = NoCall
    /\ calls = 0
    /\ gor = <<>>
    /\ NotTranslating
    /\ NoPeer

conformanceVars == <<loaderVars, inputVars, suiteVars, gor, translatorVars, peerVars>>

\* publisher.Publish(topic, msgs...) on the gochannel: the messages go to the
\* handlers subscribed to the topic; w is the waiting map to add them to
Subscribers(topic) == {h \in Handlers : SubscribeTopic(h) = topic}

Published(w, topic, msgs) ==
    [h \in Handlers |-> IF h \in Subscribers(topic) /\ router = "running"
                        THEN w[h] \cup {msgs[i] : i \in DOMAIN msgs}
                        ELSE w[h]]

\* Run(ctx): the router subscribes its handlers and starts them
Run ==
    /\ router = "created"
    /\ router' = "running"
    /\ UNCHANGED <<stages, topicLog, waiting, inflight, attempt, ingested, conformanceVars>>

\* Close(): the router closes the subscribers and the publisher of its handlers
Close ==
    /\ router \in {"created", "running"}
    /\ router' = "closed"
    /\ waiting' = [h \in Handlers |-> {}]
    /\ inflight' = [h \in Handlers |-> {}]
    /\ attempt' = [h \in Handlers |-> 0]
    /\ UNCHANGED <<stages, topicLog, ingested, conformanceVars>>

OrderItem == Map("sku" :> S("TEST-SKU-001"))
CustomerIds == {"", "test-customer-123"}
ItemLists == {Nil, List(<<>>), List(<<OrderItem>>)}

\* the payload IngestOrder marshals
OrderPayload(orderID, customerId, items) ==
    Map(("orderId" :> S(orderID)) @@ ("customerId" :> S(customerId)) @@ ("items" :> items)
        @@ ("totalAmount" :> Num(100)) @@ ("currency" :> S("USD")) @@ ("createdAt" :> Now))

\* IngestOrder(ctx, orderID, req); the caller numbers its orders
IngestOrder ==
    /\ router # "none"
    /\ ingested < MaxOrders
    /\ ingested' = ingested + 1
    /\ \E customerId \in CustomerIds, items \in ItemLists :
          LET orderID == ToString(ingested + 1)
              msg == Message(OrderPayload(orderID, customerId, items), orderID)
          IN IF router = "closed"
             THEN UNCHANGED <<topicLog, waiting>>
             ELSE /\ topicLog' = [topicLog EXCEPT ![TopicOrdersIngest] = Append(@, msg)]
                  /\ waiting' = Published(waiting, TopicOrdersIngest, <<msg>>)
    /\ UNCHANGED <<router, stages, inflight, attempt, conformanceVars>>

\* the gochannel sends handler h the next message published to its topic
Deliver(h) ==
    /\ router = "running"
    /\ inflight[h] = {}
    /\ \E msg \in waiting[h] :
          /\ inflight' = [inflight EXCEPT ![h] = {msg}]
          /\ waiting' = [waiting EXCEPT ![h] = @ \ {msg}]
    /\ attempt' = [attempt EXCEPT ![h] = 0]
    /\ UNCHANGED <<router, stages, topicLog, ingested, conformanceVars>>

\* one call of the handler function of h, inside Recoverer inside Retry, and
\* what the router does when Retry returns
HandleMessage(h) ==
    /\ router = "running"
    /\ \E msg \in inflight[h] :
          LET res == HandlerFunc(h, msg.payload)
              outs == [i \in DOMAIN res.out |-> Message(res.out[i], msg.metadata)]
          IN /\ stages' = recordMetrics(stages, StageOf(h))
             /\ IF res.err = ""
                THEN /\ topicLog' = [topicLog EXCEPT ![PublishTopic(h)] = @ \o outs]
                     /\ waiting' = Published(waiting, PublishTopic(h), outs)
                     /\ inflight' = [inflight EXCEPT ![h] = {}]
                     /\ attempt' = [attempt EXCEPT ![h] = 0]
                ELSE /\ attempt' = [attempt EXCEPT ![h] = IF @ < RetryMaxAttempts
                                                          THEN @ + 1 ELSE 0]
                     /\ UNCHANGED <<topicLog, waiting, inflight>>
    /\ UNCHANGED <<router, ingested, conformanceVars>>

InitPipeline == NewRunner /\ NoValidator

NextPipeline ==
    \/ Run \/ Close \/ IngestOrder
    \/ \E h \in Handlers : Deliver(h) \/ HandleMessage(h)

SpecPipeline == InitPipeline /\ [][NextPipeline]_vars

\* the same pipeline with the scheduling the Go runtime gives: the goroutine
\* that sends to a subscriber and the goroutine that runs a handler (and its
\* retry timer) are not held back forever once they can proceed.  Run, Close
\* and IngestOrder are up to the caller.
SpecPipelineFair ==
    /\ InitPipeline
    /\ [][NextPipeline]_vars
    /\ \A h \in Handlers : WF_vars(Deliver(h)) /\ WF_vars(HandleMessage(h))

(***************************************************************************)
(* handleRoute on its own: the route handler is running and orders.enriched *)
(* carries one or two messages with fraud scores of every kind              *)
(***************************************************************************)
\* the values of order["fraudScore"] that handleRoute tells apart
FraudScores ==
    {Map("score" :> Num(n)) : n \in {0, 15, 50, 51, 80, 81, 90, 100}}
    \cup {Map("score" :> S("90")), Map("riskLevel" :> S("high")), S("high"), Nil}

EnrichedPayloads ==
    {Map(("orderId" :> S("1")) @@ ("fraudScore" :> fs)) : fs \in FraudScores}
    \cup {Map("orderId" :> S("1")), Nil, NotJSON}

\* the router is running and the messages msgs have been published to the
\* topic of handler h
PublishedTo(h, msgs) ==
    /\ router = "running"
    /\ stages = NewStages
    /\ topicLog = [t \in Topics |-> <<>>]
    /\ waiting = [g \in Handlers |-> IF g = h THEN msgs ELSE {}]
    /\ inflight = [g \in Handlers |-> {}]
    /\ attempt = [g \in Handlers |-> 0]
    /\ ingested = 0

InitRoute ==
    /\ \E p, q \in EnrichedPayloads :
          PublishedTo("route_order", {Message(p, "1"), Message(q, "1")})
    /\ NoValidator

NextStage == \E h \in Handlers : Deliver(h) \/ HandleMessage(h)

SpecRoute == InitRoute /\ [][NextStage]_vars

(***************************************************************************)
(* The validation gate on its own: the router is running and orders.ingest *)
(* carries one or two messages with a customerId and items of every kind   *)
(***************************************************************************)
CustomerIdValues == {<<>>, <<Nil>>, <<S("")>>, <<S("test-customer-123")>>, <<Num(7)>>}
ItemsValues == {<<>>, <<Nil>>, <<S("sku")>>, <<Map("sku" :> S("TEST-SKU-001"))>>,
                <<List(<<>>)>>, <<List(<<OrderItem>>)>>}

\* an order document; an empty tuple leaves the key out
OrderWith(customerId, items) ==
    Map([x \in {"orderId"} \cup (IF customerId = <<>> THEN {} ELSE {"customerId"})
                 \cup (IF items = <<>> THEN {} ELSE {"items"}) |->
            CASE x = "orderId" -> S("1")
              [] x = "customerId" -> customerId[1]
              [] x = "items" -> items[1]])

IngestPayloads ==
    {OrderWith(c, items) : c \in CustomerIdValues, items \in ItemsValues}
    \cup {Nil, NotJSON, List(<<>>)}

InitGate ==
    /\ \E p, q \in IngestPayloads :
          PublishedTo("validate_order", {Message(p, "1"), Message(q, "2")})
    /\ NoValidator

SpecGate == InitGate /\ [][NextStage]_vars

(***************************************************************************)
(* What the input declares, independent of the order of loading            *)
(***************************************************************************)
Terminated == pc \in {"done", "failed", "panicked"}

\* the directory entries the REST loader reads as schema files
SchemaFiles ==
    {i \in DOMAIN schemaDir.entries :
        /\ ~schemaDir.entries[i].isDir
        /\ HasYamlSuffix(schemaDir.entries[i].name)
        /\ schemaDir.entries[i].name # "_index.yaml"}

\* every (name, definition) pair of the schema section(s), with its file
Declared ==
    IF dialect = "asyncapi"
    THEN {[name |-> n, def |-> SchemaSection(specDoc.root)[n], file |-> 0] :
             n \in DOMAIN SchemaSection(specDoc.root)}
    ELSE UNION {{[name |-> n, def |-> schemaDir.entries[i].doc.root[n], file |-> i] :
                    n \in DOMAIN schemaDir.entries[i].doc.root} : i \in SchemaFiles}

DeclaredNames == {d.name : d \in Declared}

InputReadable ==
    /\ specDoc.read /\ specDoc.parse
    /\ dialect = "openapi" =>
          /\ schemaDir.ok
          /\ \A i \in SchemaFiles : schemaDir.entries[i].doc.read /\ schemaDir.entries[i].doc.parse

\* the values of the $ref keys of a source value, at any depth, under any keyword
RECURSIVE AllRefs(_)
AllRefs(val) ==
    CASE val.k = "map" ->
            (IF "$ref" \in DOMAIN val.v THEN {val.v["$ref"]} ELSE {})
            \cup UNION {AllRefs(val.v[n]) : n \in DOMAIN val.v \ {"$ref"}}
      [] val.k = "list" -> UNION {AllRefs(val.v[i]) : i \in DOMAIN val.v}
      [] OTHER -> {}

\* some schema refers to a name that no schema section declares
HasMissingRef ==
    \E d \in Declared : \E r \in AllRefs(d.def) :
        r.k = "str" /\ Last(r.v) \notin DeclaredNames

\* two schema files declare the same name, each with a schema that pass 1 registers
HasCollision ==
    \E d, e \in Declared :
        /\ d.name = e.name
        /\ d.file # e.file
        /\ RegisterOutcome(Prefix(dialect), d.def) = "add"
        /\ RegisterOutcome(Prefix(dialect), e.def) = "add"

\* the resources pass 1 registers
WillRegister ==
    {SchemaID(Prefix(dialect), d.name) :
        d \in {x \in Declared : RegisterOutcome(Prefix(dialect), x.def) = "add"}}

(***************************************************************************)
(* C1  Two-pass loading: in both constructors no schema is compiled before *)
(* every schema that will be registered (REST: from every schema file of   *)
(* the directory) has been added as a resource.                            *)
(***************************************************************************)
C1_TwoPassLoading ==
    (compiled # {} \/ DOMAIN schemas # {}) => WillRegister \subseteq DOMAIN resources

\* two files have been registered and the first schema has been compiled
C1_Witness ==
    /\ dialect = "openapi"
    /\ Cardinality(SchemaFiles) = 2
    /\ Cardinality(DOMAIN resources) = 2
    /\ pc = "pass2"
    /\ ci = 2
    /\ compiled # {}

(***************************************************************************)
(* C2  Missing-reference failure: if any schema of the specification       *)
(* contains a reference whose target name is declared nowhere in the       *)
(* specification, construction fails with an error and returns no          *)
(* validator.                                                              *)
(***************************************************************************)
C2_MissingRefFails ==
    (pc \in {"done", "failed"} /\ InputReadable /\ HasMissingRef) => ret.kind = "error"

(***************************************************************************)
(* C3  Declaration-order independence: when every reference targets a      *)
(* declared schema name, loading succeeds and compiles every declared      *)
(* schema, whatever the order of declaration or iteration.  The premise    *)
(* here is narrowed to inputs whose definitions are all mappings that      *)
(* marshal, declared once, with no chain of references that returns to     *)
(* its start without descending into a property or an item.                *)
(***************************************************************************)
\* the declared names that the definitions of name n refer to without
\* descending into a property or an item
SameLocationTargets(n) ==
    UNION {{Last(e.ref) : e \in {x \in RefsOf(d.def, TRUE) : x.same}} :
              d \in {x \in Declared : x.name = n}}

RECURSIVE NameClosure(_, _)
NameClosure(frontier, seen) ==
    IF frontier \subseteq seen THEN seen
    ELSE NameClosure(UNION {SameLocationTargets(n) : n \in frontier \ seen} \cap DeclaredNames,
                     seen \cup frontier)

SourceRefLoop ==
    \E n \in DeclaredNames : n \in NameClosure(SameLocationTargets(n) \cap DeclaredNames, {})

AllRefsDeclared ==
    /\ InputReadable
    /\ Declared # {}
    /\ ~HasCollision
    /\ \A d \in Declared :
          /\ RegisterOutcome(Prefix(dialect), d.def) = "add"
          /\ \A r \in AllRefs(d.def) : r.k = "str" /\ Last(r.v) \in DeclaredNames
    /\ ~SourceRefLoop

C3_OrderIndependentLoad ==
    (Terminated /\ AllRefsDeclared) =>
        /\ ret.kind = "validator"
        /\ DOMAIN schemas = DeclaredNames

(***************************************************************************)
(* C4  Name collision is a load-time error: when two schema files of the   *)
(* REST specification declare a schema under the same name, construction   *)
(* fails with an error.                                                    *)
(***************************************************************************)
C4_CollisionFails ==
    (pc \in {"done", "failed"} /\ dialect = "openapi" /\ InputReadable /\ HasCollision) => ret.kind = "error"

(***************************************************************************)
(* C5  Unknown schema is never a pass: for every payload, well-formed or   *)
(* not, ValidateMessage / ValidateResponse called with a name that is not  *)
(* in the registry returns the unknown-schema error, and ValidateEvent     *)
(* records the result with Passed = FALSE.                                 *)
(***************************************************************************)
FacadeOps == {"ValidateMessage", "ValidateResponse", "ValidateEvent"}

C5_UnknownSchemaNeverPasses ==
    /\ (lastCall.op \in FacadeOps /\ lastCall.schema \notin DOMAIN schemas) =>
          /\ lastCall.err.chain = <<"schema not found">>
          /\ lastCall.err.detail = {<<"name", lastCall.schema>>}
          /\ lastCall.op = "ValidateEvent" =>
                /\ ~lastCall.out[1].Passed
                /\ results[Len(results)] = lastCall.out[1]
    /\ dialect = "asyncapi" =>
          \A i \in DOMAIN results :
              results[i].Schema \notin DOMAIN schemas =>
                  ~results[i].Passed /\ results[i].Error.chain = <<"schema not found">>

\* ValidateEvent has recorded a malformed payload sent to an unknown schema
C5_Witness ==
    /\ lastCall.op = "ValidateEvent"
    /\ lastCall.schema \notin DOMAIN schemas
    /\ ~JSONUnmarshal(lastCall.payload).ok
    /\ Len(results) >= 1

(***************************************************************************)
(* C6  A validation call has exactly one of four outcomes, decided in this *)
(* order: unknown schema; otherwise parse error; otherwise constraint      *)
(* violation; otherwise success.  The three errors carry different         *)
(* messages, and a parse failure is never reported as a violation nor the  *)
(* reverse.                                                                *)
(***************************************************************************)
ParsePrefix == IF dialect = "asyncapi" THEN "parsing message payload" ELSE "parsing response body"

\* the call of the facade that lastCall describes, if it made one
FacadeCalled ==
    \/ lastCall.op \in FacadeOps
    \/ /\ lastCall.op = "RunTest"
       /\ lastCall.out[1].Error.chain # <<>> => lastCall.out[1].Error.chain[1] = "schema validation"
       /\ lastCall.schema # ""
       /\ lastCall.payload # ""

C6_FourOutcomes ==
    FacadeCalled =>
        LET known == lastCall.schema \in DOMAIN schemas
            parsed == JSONUnmarshal(lastCall.payload).ok
            id == schemas[lastCall.schema]
            conforms == Violations(resources, id, resources[id],
                                   JSONUnmarshal(lastCall.payload).data) = {}
        IN lastCall.err.chain =
              IF ~known THEN <<"schema not found">>
              ELSE IF ~parsed THEN <<ParsePrefix>>
              ELSE IF ~conforms THEN <<"schema validation failed">>
              ELSE <<>>

\* a constraint violation has been returned after a parse error was recorded
C6_Witness ==
    /\ lastCall.op \in FacadeOps
    /\ lastCall.err.chain = <<"schema validation failed">>
    /\ \E i \in DOMAIN results :
          results[i].Error.chain # <<>> /\ results[i].Error.chain[1] = "parsing message payload"

(***************************************************************************)
(* C7  Idempotence: two calls validate(S, P) against the same validator,   *)
(* with any number of other calls in between, return the same verdict and  *)
(* the same error content.                                                 *)
(***************************************************************************)
\* the (schema, payload, error) triples the suite and the last call hold
Verdicts ==
    (IF dialect = "asyncapi"
     THEN {<<results[i].Schema, results[i].Payload, results[i].Error>> : i \in DOMAIN results}
     ELSE {})
    \cup (IF FacadeCalled THEN {<<lastCall.schema, lastCall.payload, lastCall.err>>} ELSE {})

C8_RegistryUnchanged ==
    [][SuiteReady => /\ schemas' = schemas
                     /\ resources' = resources
                     /\ compiled' = compiled
                     /\ channels' = channels]_vars

\* calls of every outcome have been made against the validator
C8_Witness ==
    /\ SuiteReady
    /\ Len(results) = 2
    /\ \E i \in DOMAIN results : results[i].Passed
    /\ \E i \in DOMAIN results : ~results[i].Passed
    /\ lastCall.op \in {"ValidateMessage", "ValidateResponse"}
    /\ lastCall.err.chain = <<"schema not found">>

(***************************************************************************)
(* C9  Serialized result appends: when ValidateEvent is called by several  *)
(* goroutines on the same suite, once all calls have returned the result   *)
(* sequence holds exactly one entry per call.                              *)
(***************************************************************************)
C9_NoLostResult ==
    (\A g \in Goroutines : gor[g].pc = "returned") =>
        /\ Len(results) = NumGoroutines
        /\ \A g \in Goroutines : \E i \in DOMAIN results : results[i] = gor[g].result

(***************************************************************************)
(* C10  Append-only results: each sequential call of ValidateEvent or      *)
(* RunTest, on every return path, appends exactly one result at the end of *)
(* the sequence and leaves the earlier entries as they were; no other      *)
(* operation (Results, Summary, a direct facade call) changes the          *)
(* sequence.                                                               *)
(***************************************************************************)
IsPrefixOf(rs, ss) == Len(rs) <= Len(ss) /\ SubSeq(ss, 1, Len(rs)) = rs

C10_AppendOnly ==
    [][IF calls' = calls + 1 /\ lastCall'.op \in {"ValidateEvent", "RunTest"}
       THEN /\ Len(results') = Len(results) + 1
            /\ IsPrefixOf(results, results')
            /\ results'[Len(results')] = lastCall'.out[1]
       ELSE results' = results]_vars

\* RunTest has returned through three different paths and Summary has been read
C10_Witness ==
    /\ dialect = "openapi"
    /\ Len(results) = 3
    /\ results[1].Error.chain = <<"creating request">>
    /\ results[2].Error.chain # <<>> /\ results[2].Error.chain[1] = "schema validation"
    /\ results[3].Passed
    /\ lastCall.op = "Summary"

(***************************************************************************)
(* C11  Summary counts: after the sequential calls that recorded the       *)
(* results, Summary() returns (passed, failed) with passed the number of   *)
(* recorded results whose Passed is TRUE, failed the number whose Passed   *)
(* is FALSE, and passed + failed the number of recorded results; when      *)
(* every recorded result passed, failed is 0.                              *)
(***************************************************************************)
C11_SummaryCounts ==
    lastCall.op = "Summary" =>
        LET passed == lastCall.out[1]
            failed == lastCall.out[2]
        IN /\ passed = Cardinality({i \in DOMAIN results : results[i].Passed})
           /\ failed = Cardinality({i \in DOMAIN results : ~results[i].Passed})
           /\ passed + failed = Len(results)
           /\ (\A i \in DOMAIN results : results[i].Passed) => failed = 0

\* Summary has been read after three calls, of which one passed and two failed
C11_Witness ==
    /\ lastCall.op = "Summary"
    /\ Len(results) = 3
    /\ lastCall.out = <<1, 2>>
    /\ results[2].Passed

(***************************************************************************)
(* C12  A failing call does not stop or poison the suite: after a recorded *)
(* call has failed (unknown schema, parse error or constraint violation),  *)
(* the suite still accepts calls, every later call is recorded, and its    *)
(* verdict is the one a validator freshly loaded from the same             *)
(* specification gives for the same (schema, payload).                     *)
(***************************************************************************)
\* the definition a fresh load leaves registered under name n: the one of
\* the last schema file that registers it
FreshDef(n) ==
    LET adds == {d \in Declared : d.name = n /\ RegisterOutcome(Prefix(dialect), d.def) = "add"}
    IN (CHOOSE d \in adds : \A e \in adds : e.file <= d.file).def

FreshNames == {d.name : d \in {x \in Declared : RegisterOutcome(Prefix(dialect), x.def) = "add"}}

FreshResources ==
    LET idOf == [n \in FreshNames |-> SchemaID(Prefix(dialect), n)]
    IN [id \in {idOf[n] : n \in FreshNames} |->
           Map(toJSONSchema(Prefix(dialect), FreshDef(Last(id)).v))]

\* the verdict of a validator whose registry holds the resources fresh
FreshVerdict(fresh, schemaName, payload) ==
    LET id == SchemaID(Prefix(dialect), schemaName)
    IN IF id \notin DOMAIN fresh
       THEN NewError("schema not found", {<<"name", schemaName>>})
       ELSE IF ~JSONUnmarshal(payload).ok
       THEN Errorf(ParsePrefix, JSONError)
       ELSE LET broken == Violations(fresh, id, fresh[id], JSONUnmarshal(payload).data)
            IN IF broken # {}
               THEN NewError("schema validation failed", broken)
               ELSE NoError

\* a call recorded before position i failed
FailedBefore(i) == \E j \in 1..(i - 1) : ~results[j].Passed

\* the position in results of the call lastCall describes, or the one a
\* call that records nothing would have taken
LastCallPosition == IF lastCall.out = <<>> THEN Len(results) + 1 ELSE Len(results)

C12_FailureDoesNotPoison ==
    /\ (FacadeCalled /\ FailedBefore(LastCallPosition)) =>
          /\ lastCall.err = FreshVerdict(FreshResources, lastCall.schema, lastCall.payload)
          /\ lastCall.out # <<>> => results[Len(results)] = lastCall.out[1]
          /\ lastCall.op = "ValidateEvent" =>
                /\ lastCall.out[1].Error = lastCall.err
                /\ lastCall.out[1].Passed = (lastCall.err = NoError)
    /\ (SuiteReady /\ calls < MaxCalls /\ FailedBefore(Len(results) + 1)) =>
          IF dialect = "asyncapi" THEN ENABLED ValidateEvent ELSE ENABLED RunTest

\* a parse error and a constraint violation were recorded, and the call
\* after them passed
C12_Witness ==
    /\ dialect = "asyncapi"
    /\ Len(results) = 3
    /\ results[1].Error.chain = <<"parsing message payload">>
    /\ results[2].Error.chain = <<"schema validation failed">>
    /\ results[3].Passed
    /\ lastCall.op = "ValidateEvent"

(***************************************************************************)
(* C13  Registry completeness: when construction succeeds, the names the   *)
(* facade can resolve are exactly the top-level names declared in the      *)
(* schema section (event dialect: components.schemas; REST dialect: the    *)
(* non-index .yaml files of the schema directory).  Stated here for        *)
(* specifications whose declared definitions are all mappings.             *)
(***************************************************************************)
C13_RegistryComplete ==
    (/\ pc = "done"
     /\ ret.kind = "validator"
     /\ \A d \in Declared : d.def.k = "map") =>
        DOMAIN schemas = DeclaredNames

RequiredOf(def) == {def["required"].v[i].v[1] : i \in DOMAIN def["required"].v}

C15_RequiredEnforced ==
    (/\ lastCall.op \in {"ValidateMessage", "ValidateResponse"}
     /\ lastCall.schema \in DOMAIN schemas
     /\ JSONUnmarshal(lastCall.payload).ok
     /\ JSONUnmarshal(lastCall.payload).data.k = "obj"
     /\ "required" \in DOMAIN FreshDef(lastCall.schema).v) =>
        LET def == FreshDef(lastCall.schema).v
            missing == RequiredOf(def) \ JSONUnmarshal(lastCall.payload).data.v
        IN IF missing # {}
           THEN /\ lastCall.err.chain = <<"schema validation failed">>
                /\ \A m \in missing : <<"required", m>> \in lastCall.err.detail
           ELSE DOMAIN def \subseteq {"type", "required"} => lastCall.err = NoError

\* an object with x and without y was validated against a schema that
\* requires both, after an earlier call
C15_Witness ==
    /\ lastCall.op \in {"ValidateMessage", "ValidateResponse"}
    /\ lastCall.schema \in DOMAIN schemas
    /\ FreshDef(lastCall.schema).v = RequiresXY
    /\ lastCall.payload = "{\"x\":1}"
    /\ lastCall.err.detail = {<<"required", "y">>}
    /\ calls = 2

(***************************************************************************)
(* C16  Conjunctive composition: for a schema declared as allOf of         *)
(* elements given inline or by reference, a payload passes if and only if  *)
(* it satisfies every element; a payload that satisfies only one of them   *)
(* fails.                                                                  *)
(***************************************************************************)
\* data satisfies the source schema m, references followed by declared name
RECURSIVE Satisfies(_, _)
Satisfies(m, data) ==
    /\ "type" \in DOMAIN m => m["type"].v = <<TypeName(data)>>
    /\ ("required" \in DOMAIN m /\ data.k = "obj") => RequiredOf(m) \subseteq data.v
    /\ "$ref" \in DOMAIN m =>
          /\ Last(m["$ref"].v) \in FreshNames
          /\ Satisfies(FreshDef(Last(m["$ref"].v)).v, data)
    /\ "allOf" \in DOMAIN m =>
          \A i \in DOMAIN m["allOf"].v : Satisfies(m["allOf"].v[i].v, data)

C16_AllOfConjunctive ==
    (/\ lastCall.op \in {"ValidateMessage", "ValidateResponse"}
     /\ lastCall.schema \in DOMAIN schemas
     /\ JSONUnmarshal(lastCall.payload).ok
     /\ DOMAIN FreshDef(lastCall.schema).v = {"allOf"}) =>
        LET parts == FreshDef(lastCall.schema).v["allOf"].v
            data == JSONUnmarshal(lastCall.payload).data
        IN (lastCall.err = NoError) <=> \A i \in DOMAIN parts : Satisfies(parts[i].v, data)

\* a payload that satisfies only the referenced first element of allOf has
\* been rejected for the field the second element requires
C16_Witness ==
    /\ lastCall.op \in {"ValidateMessage", "ValidateResponse"}
    /\ lastCall.schema \in DOMAIN schemas
    /\ FreshDef(lastCall.schema).v = AllOfRef("B")
    /\ lastCall.payload = "{\"x\":1}"
    /\ lastCall.err.chain = <<"schema validation failed">>
    /\ lastCall.err.detail = {<<"required", "y">>}

(***************************************************************************)
(* C17  Reference rewriting: a $ref of a translated node, at the root, in  *)
(* a property schema, in the items schema or in an allOf element, is       *)
(* replaced by the namespace prefix of the dialect (synapse://asyncapi/ or *)
(* synapse://schemas/) followed by the last "/"-separated segment of the   *)
(* original reference, which is the ResourceID under which the loader      *)
(* registers a schema of that name.                                        *)
(***************************************************************************)
\* "synapse://asyncapi/<name>" or "synapse://schemas/<name>"
RewrittenRef(name) ==
    IF dialect = "asyncapi" THEN Str(<<"synapse:", "", "asyncapi", name>>)
    ELSE Str(<<"synapse:", "", "schemas", name>>)

RECURSIVE RefsRewritten(_, _)
RefsRewritten(src, out) ==
    /\ "$ref" \in DOMAIN src =>
          /\ "$ref" \in DOMAIN out
          /\ out["$ref"] = RewrittenRef(Last(src["$ref"].v))
          /\ out["$ref"].v = SchemaID(Prefix(dialect), Last(src["$ref"].v))
    /\ ("properties" \in DOMAIN src /\ src["properties"].k = "map") =>
          \A p \in DOMAIN src["properties"].v :
              src["properties"].v[p].k = "map" =>
                  RefsRewritten(src["properties"].v[p].v, out["properties"].v[p].v)
    /\ ("items" \in DOMAIN src /\ src["items"].k = "map") =>
          RefsRewritten(src["items"].v, out["items"].v)
    /\ ("allOf" \in DOMAIN src /\ src["allOf"].k = "list") =>
          \A i \in DOMAIN src["allOf"].v :
              src["allOf"].v[i].k = "map" =>
                  RefsRewritten(src["allOf"].v[i].v, out["allOf"].v[i].v)

C17_RefRewritten ==
    translated.kind = "value" => RefsRewritten(node, translated.v)

\* the REST translator has rewritten a file-relative reference of an items schema
C17_Witness ==
    /\ dialect = "openapi"
    /\ translated.kind = "value"
    /\ "items" \in DOMAIN node
    /\ node["items"] = Map("$ref" :> Str(<<".", "common.yaml#", "B">>))
    /\ translated.v["items"].v["$ref"] = Str(<<"synapse:", "", "schemas", "B">>)

(***************************************************************************)
(* C18  Keyword preservation: the translated node has every keyword of the *)
(* source node plus the dialect marker; keywords other than $ref,          *)
(* properties, items and allOf carry the source's values; properties,      *)
(* items and allOf are present whenever the source has them, and           *)
(* properties keeps exactly the source's property names.  Stated here for  *)
(* source nodes whose properties, items and allOf hold schemas (mappings   *)
(* or booleans), as JSON Schema 2020-12 allows.                            *)
(***************************************************************************)
IsSchemaValue(val) == val.k \in {"map", "bool"}

HoldsSchemas(m) ==
    /\ "properties" \in DOMAIN m =>
          /\ m["properties"].k = "map"
          /\ \A p \in DOMAIN m["properties"].v : IsSchemaValue(m["properties"].v[p])
    /\ "items" \in DOMAIN m => IsSchemaValue(m["items"])
    /\ "allOf" \in DOMAIN m =>
          /\ m["allOf"].k = "list"
          /\ \A i \in DOMAIN m["allOf"].v : IsSchemaValue(m["allOf"].v[i])

C18_KeywordsPreserved ==
    (translated.kind = "value" /\ HoldsSchemas(node)) =>
        /\ DOMAIN translated.v = DOMAIN node \cup {"$schema"}
        /\ \A k \in DOMAIN node \ {"$ref", "properties", "items", "allOf"} :
              translated.v[k] = node[k]
        /\ ("properties" \in DOMAIN node /\ node["properties"].k = "map") =>
              DOMAIN translated.v["properties"].v = DOMAIN node["properties"].v

(***************************************************************************)
(* C19  Dialect marker: whatever keywords the source node declares, the    *)
(* root of its translation has $schema equal to the draft 2020-12 URI.     *)
(***************************************************************************)
C19_DialectMarker ==
    translated.kind = "value" =>
        /\ "$schema" \in DOMAIN translated.v
        /\ translated.v["$schema"] = DialectMarker

(***************************************************************************)
(* C20  Channels are informational only: Passed and Error of a recorded    *)
(* ValidateEvent(channel, schema, payload) are those of                    *)
(* ValidateMessage(schema, payload); two calls that differ only in the     *)
(* channel, declared in Channels() or not, have the same verdict, and the  *)
(* channel appears in the result only as the field Channel.                *)
(***************************************************************************)
C20_ChannelInformational ==
    dialect = "asyncapi" =>
        /\ \A i \in DOMAIN results :
              /\ results[i].Error = ValidateMessage(results[i].Schema, results[i].Payload)
              /\ results[i].Passed = (results[i].Error = NoError)
              /\ \A d \in results[i].Error.detail : d[2] # results[i].Channel
        /\ \A i, j \in DOMAIN results :
              (/\ results[i].Schema = results[j].Schema
               /\ results[i].Payload = results[j].Payload
               /\ results[i].Channel # results[j].Channel) =>
                  /\ results[i].Passed = results[j].Passed
                  /\ results[i].Error = results[j].Error

\* the same (schema, payload) has passed on a declared channel and on a
\* channel the specification does not declare
C20_Witness ==
    /\ dialect = "asyncapi"
    /\ Len(results) = 2
    /\ results[1].Schema = results[2].Schema
    /\ results[1].Payload = results[2].Payload
    /\ results[1].Channel \in DOMAIN channels
    /\ results[2].Channel \notin DOMAIN channels
    /\ results[1].Passed /\ results[2].Passed

(***************************************************************************)
(* C21  Instance isolation: of two validators constructed from different   *)
(* specifications, with their construction steps and calls interleaved,    *)
(* each resolves exactly the names its own specification registers and     *)
(* returns the verdicts of a validator loaded alone from that              *)
(* specification, also when both declare a schema of the same name; the    *)
(* registry each holds is the one of that lone load.                       *)
(***************************************************************************)
\* what the peer's specification registers when it is loaded alone
PeerFreshNames == {n \in DOMAIN peer.sm : RegisterOutcome(AsyncPrefix, peer.sm[n]) = "add"}

PeerFreshResources ==
    [id \in {SchemaID(AsyncPrefix, n) : n \in PeerFreshNames} |->
        Map(toJSONSchema(AsyncPrefix, peer.sm[Last(id)].v))]

PeerFreshVerdict(schemaName, payload) ==
    LET id == SchemaID(AsyncPrefix, schemaName)
        fresh == PeerFreshResources
    IN IF id \notin DOMAIN fresh
       THEN NewError("schema not found", {<<"name", schemaName>>})
       ELSE IF ~JSONUnmarshal(payload).ok
       THEN Errorf("parsing message payload", JSONError)
       ELSE LET broken == Violations(fresh, id, fresh[id], JSONUnmarshal(payload).data)
            IN IF broken # {}
               THEN NewError("schema validation failed", broken)
               ELSE NoError

C21_InstanceIsolation ==
    /\ SuiteReady => DOMAIN schemas = FreshNames /\ resources = FreshResources
    /\ lastCall.op \in FacadeOps =>
          lastCall.err = FreshVerdict(FreshResources, lastCall.schema, lastCall.payload)
    /\ peer.pc = "done" =>
          DOMAIN peer.schemas = PeerFreshNames /\ peer.resources = PeerFreshResources
    /\ peer.last.op = "ValidateMessage" =>
          peer.last.err = PeerFreshVerdict(peer.last.schema, peer.last.payload)

\* both validators are loaded and both declare A, the first without and the
\* peer with required properties; the first has accepted {"x":1} as an A and
\* the peer has rejected the same payload as an A
C21_Witness ==
    /\ dialect = "asyncapi"
    /\ SuiteReady
    /\ peer.pc = "done"
    /\ "A" \in DOMAIN schemas /\ "A" \in DOMAIN peer.schemas
    /\ lastCall.op = "ValidateMessage" /\ lastCall.schema = "A"
    /\ lastCall.payload = "{\"x\":1}" /\ lastCall.err = NoError
    /\ peer.last.op = "ValidateMessage" /\ peer.last.schema = "A"
    /\ peer.last.payload = "{\"x\":1}" /\ peer.last.err # NoError

(***************************************************************************)
(* C22  HTTP contract test verdict: a RunTest call given a non-empty       *)
(* response schema name records Passed = true only if the response body    *)
(* has been validated successfully against the compiled schema of that     *)
(* name; a name that is not in the registry never yields Passed = true.    *)
(***************************************************************************)
C22_RunTestVerdict ==
    (lastCall.op = "RunTest" /\ lastCall.schema # "" /\ lastCall.out[1].Passed) =>
        /\ lastCall.schema \in DOMAIN schemas
        /\ ValidateResponse(lastCall.schema, lastCall.out[1].Response) = NoError

(***************************************************************************)
(* C23  Pipeline stage order: every message on orders.routed is what       *)
(* handleRoute produces from a message on orders.enriched, which is what   *)
(* handleEnrich produces from a message on orders.validated, which is what *)
(* handleValidate produces from a message on orders.ingest; a message      *)
(* carries the marks of exactly the stages before its topic, and no topic  *)
(* carries a message twice.                                                *)
(***************************************************************************)
OnTopic(t) == {topicLog[t][i] : i \in DOMAIN topicLog[t]}

StageMarks == {"validatedAt", "enrichedAt", "routedAt"}
MarksOf(msg) == IF msg.payload.k = "map" THEN StageMarks \cap DOMAIN msg.payload.v ELSE {}

ProducedFrom(msg, topic, h) ==
    \E src \in OnTopic(topic) :
        /\ HandlerFunc(h, src.payload) = [err |-> "", out |-> <<msg.payload>>]
        /\ msg.metadata = src.metadata

C23_StageOrder ==
    /\ \A m \in OnTopic(TopicOrdersRouted) :
          ProducedFrom(m, TopicOrdersEnriched, "route_order") /\ MarksOf(m) = StageMarks
    /\ \A m \in OnTopic(TopicOrdersEnriched) :
          /\ ProducedFrom(m, TopicOrdersValidated, "enrich_order")
          /\ MarksOf(m) = {"validatedAt", "enrichedAt"}
    /\ \A m \in OnTopic(TopicOrdersValidated) :
          ProducedFrom(m, TopicOrdersIngest, "validate_order") /\ MarksOf(m) = {"validatedAt"}
    /\ \A m \in OnTopic(TopicOrdersIngest) : MarksOf(m) = {}
    /\ \A t \in Topics : Cardinality(OnTopic(t)) = Len(topicLog[t])

\* one order has gone through all three stages and another one, ingested
\* as well, has not passed the validate stage
C23_Witness ==
    /\ router = "running"
    /\ Len(topicLog[TopicOrdersIngest]) = 2
    /\ Len(topicLog[TopicOrdersValidated]) = 1
    /\ Len(topicLog[TopicOrdersEnriched]) = 1
    /\ Len(topicLog[TopicOrdersRouted]) = 1

(***************************************************************************)
(* C24  Dead letter queue: an event whose stage handler fails on the last  *)
(* of the configured retries is eventually published to orders.dlq (unless *)
(* the router is closed first).                                            *)
(***************************************************************************)
\* a handler has been retried RetryMaxAttempts - 1 times on the message of
\* order i, and its last retry is going to fail as well
RetriesExhausted(i) ==
    /\ router = "running"
    /\ \E h \in Handlers : \E msg \in inflight[h] :
          /\ msg.metadata = ToString(i)
          /\ attempt[h] = RetryMaxAttempts
          /\ HandlerFunc(h, msg.payload).err # ""

OnDLQ(i) == \E d \in OnTopic(TopicOrdersDLQ) : d.metadata = ToString(i)

C24_DeadLetter ==
    \A i \in 1..MaxOrders : RetriesExhausted(i) ~> (OnDLQ(i) \/ router = "closed")

(***************************************************************************)
(* C25  Pipeline progress: while the router is running, every order that   *)
(* IngestOrder published with a non-empty customerId and at least one item *)
(* eventually yields a message on orders.routed, also in runs in which     *)
(* other ingested orders are rejected by the validate stage.               *)
(***************************************************************************)
ValidOrder(msg) ==
    /\ Lookup(msg.payload.v, "customerId") # S("")
    /\ Lookup(msg.payload.v, "items").k = "list"
    /\ Len(Lookup(msg.payload.v, "items").v) > 0

\* order i was published while the router was running and is a valid order
Accepted(i) ==
    /\ router = "running"
    /\ \E msg \in waiting["validate_order"] \cup inflight["validate_order"] :
          msg.metadata = ToString(i) /\ ValidOrder(msg)

Routed(i) == \E msg \in OnTopic(TopicOrdersRouted) : msg.metadata = ToString(i)

C25_Progress ==
    \A i \in 1..MaxOrders : Accepted(i) ~> (Routed(i) \/ router = "closed")

(***************************************************************************)
(* C26  Stage set invariant: in every reachable state of a Runner (before  *)
(* Run, while messages are processed, after handler failures, after Close) *)
(* GetStages returns exactly three stages, with ids validate, enrich and   *)
(* route, each healthy; GetStage(id) returns a stage with that id exactly  *)
(* for these three ids and nil for any other id.                           *)
(***************************************************************************)
StageIds == {"validate", "enrich", "route"}
StageIdArgs == StageIds \cup {"", "ingest", "validate_order", "dlq"}

C26_StageSet ==
    /\ GetStages # {}
    /\ \A out \in GetStages :
          /\ Len(out) = 3
          /\ {out[i].StageId : i \in DOMAIN out} = StageIds
          /\ \A i \in DOMAIN out : out[i].Status = "healthy"
    /\ \A id \in StageIdArgs :
          IF id \in StageIds
          THEN GetStage(id) = <<[StageId |-> id, Status |-> "healthy"]>>
          ELSE GetStage(id) = <<>>

\* the validate handler has failed on a message through all its retries and
\* is failing on it again after redelivery, while the other stages have
\* processed an order
C26_Witness ==
    /\ router = "running"
    /\ inflight["validate_order"] # {}
    /\ attempt["validate_order"] > 0
    /\ stages["validate"].ProcessedTotal >= RetryMaxAttempts + 2
    /\ stages["route"].ProcessedTotal > 0

(***************************************************************************)
(* C27  Routing by fraud score: a message that handleRoute produces has    *)
(* destination rejected when the fraud score is above 80, manual-review    *)
(* when it is above 50 but not above 80, and fulfillment otherwise (also   *)
(* when fraudScore is absent or not numeric), with the matching            *)
(* routingReason.                                                          *)
(***************************************************************************)
\* the numeric score an order carries, if any
NumericScore(order) ==
    LET fs == Lookup(order, "fraudScore")
    IN IF fs.k = "map" /\ "score" \in DOMAIN fs.v /\ fs.v["score"].k = "num"
       THEN <<fs.v["score"].v>>
       ELSE <<>>

C27_RoutingByScore ==
    \A m \in OnTopic(TopicOrdersRouted) :
        LET order == m.payload.v
            score == NumericScore(order)
        IN IF score # <<>> /\ score[1] > 80
           THEN /\ order["destination"] = S("rejected")
                /\ order["routingReason"] = S("Fraud score exceeds threshold")
           ELSE IF score # <<>> /\ score[1] > 50
           THEN /\ order["destination"] = S("manual-review")
                /\ order["routingReason"] = S("High fraud score requires manual review")
           ELSE /\ order["destination"] = S("fulfillment")
                /\ order["routingReason"] = S("All checks passed")

(***************************************************************************)
(* C28  Validation gate: no message is ever published on orders.validated, *)
(* orders.enriched or orders.routed for an order whose customerId is       *)
(* absent, null or "", or whose items is absent, not a list or empty: on   *)
(* such an order handleValidate fails and emits nothing, on every delivery *)
(* attempt.                                                                *)
(***************************************************************************)
\* the order document (not) passing the gate, read off the document itself
Rejectable(payload) ==
    \/ payload.k # "map"
    \/ "customerId" \notin DOMAIN payload.v
    \/ payload.v["customerId"] \in {Nil, S("")}
    \/ "items" \notin DOMAIN payload.v
    \/ payload.v["items"].k # "list"
    \/ payload.v["items"].v = <<>>

LaterTopics == {TopicOrdersValidated, TopicOrdersEnriched, TopicOrdersRouted}

C28_ValidationGate ==
    /\ \A t \in LaterTopics : \A m \in OnTopic(t) : ~Rejectable(m.payload)
    /\ \A m \in inflight["validate_order"] :
          Rejectable(m.payload) =>
              /\ handleValidate(m.payload).err # ""
              /\ handleValidate(m.payload).out = <<>>
              /\ \A t \in LaterTopics : \A d \in OnTopic(t) : d.metadata # m.metadata

\* a rejectable order has been through all retries of one delivery and is
\* being retried after redelivery, and nothing has been published for it,
\* while the other order has passed the gate
C28_Witness ==
    /\ \E m \in inflight["validate_order"] : Rejectable(m.payload) /\ m.metadata = "1"
    /\ attempt["validate_order"] > 0
    /\ stages["validate"].ProcessedTotal >= RetryMaxAttempts + 2
    /\ \E d \in OnTopic(TopicOrdersRouted) : d.metadata = "2"

(***************************************************************************)
(* C29  All references point into the registry: every $ref in a registered *)
(* resource, at any depth and under any keyword (oneOf, anyOf, not,        *)
(* additionalProperties and list-valued items included), is the registry   *)
(* prefix followed by a schema name; no "#/components/schemas/X" survives  *)
(* translation.                                                            *)
(***************************************************************************)
IsRegistryRef(r) ==
    /\ r.k = "str"
    /\ r.v # <<>>
    /\ r.v = SchemaID(Prefix(dialect), Last(r.v))
    /\ Last(r.v) # ""

C29_RefsPointIntoRegistry ==
    \A id \in DOMAIN resources : \A r \in AllRefs(resources[id]) : IsRegistryRef(r)

(***************************************************************************)
(* C30  Malformed input is reported, not crashed on: for a specification   *)
(* that is unreadable, fails to parse, or declares a schema node with a    *)
(* keyword whose value has an unexpected type, construction ends by        *)
(* returning an error and no validator; it never ends in a runtime panic.  *)
(***************************************************************************)
\* a declared schema has a $ref whose value is not a string
HasMalformedNode ==
    \E d \in Declared : d.def.k = "map" /\ Panics(d.def.v)

C30_MalformedReported ==
    /\ pc # "panicked"
    /\ ret.kind # "panic"
    /\ (Terminated /\ (~InputReadable \/ HasMalformedNode)) => ret.kind = "error"

====
